---- MODULE Spec2Model ----
(***************************************************************************)
(* Evidence ingestion pipeline: IngestionPipeline.run (pipeline.py), the   *)
(* processor chain (processors.py), the object stores and the metadata     *)
(* stores (storage.py), as a state machine.                                *)
(*                                                                         *)
(* Conventions.  An Optional[str] is a sequence of length 0 (None) or 1.   *)
(* A dict of strings is a set of <<key, value>> pairs with distinct keys.  *)
(* A path or object key is the tuple of its components.  SHA-256 is        *)
(* modelled as an injective function of its input (no collisions).         *)
(***************************************************************************)
EXTENDS Integers, Sequences, FiniteSets, TLC

(* ---- bounds of the model ---- *)
\* calls of run() on one pipeline object
MaxRuns == 2
\* documents fetched over a whole behaviour at most
MaxDocs == 3
\* calls (of persist, fetch, bulk_index) that meet a failure, over a whole
\* behaviour at most
MaxFaults == 1
\* documents of the batch a DeduplicationProcessor under test is given at most
MaxDedupBatch == 3
\* documents of the batch one call of bulk_index is given at most
MaxIndexBatch == 2
\* documents of the batch a FileAnalysisProcessor is given at most
MaxFileBatch == 3
\* batch_size of a mock connector, files of an Enron data directory at most
MaxFetch == 3
\* folders of a mailbox, pages of a folder, messages of a page at most
MaxFolders == 2
MaxPages == 2
MaxPageSize == 2
\* document ids of an enrichment job at most
MaxJobDocs == 2
MaxObjects == 2
MaxBatchSize == 2
MaxWorkers == 2
MaxPending == 3
MaxRequests == 2
MaxTime == 2
MaxStores == 2
MaxMailbox == 2

(* ---- program constants ---- *)
\* storage.py:222  stop_after_attempt(3)
PERSIST_ATTEMPTS == 3
\* storage.py:62-63  the multipart threshold and the part size, in MiB
MULTIPART_THRESHOLD == 5
MULTIPART_CHUNKSIZE == 8
\* microsoft_graph.py:128  stop_after_attempt(3)
GRAPH_ATTEMPTS == 3
\* microsoft_graph.py:129  wait_exponential(multiplier=1, min=2, max=10)
WAIT_MIN == 2
WAIT_MAX == 10
\* microsoft_graph.py:157  response.headers.get("Retry-After", 60)
DEFAULT_RETRY_AFTER == 60

None == <<>>
Some(x) == <<x>>

\* python: (x or "") for an Optional[str]
OrEmpty(x) == IF x = None THEN "" ELSE x[1]

\* python truthiness of an Optional[str]: neither None nor ""
Truthy(x) == x /= None /\ x[1] /= ""

(* ---- dicts as sets of pairs ---- *)
HasKey(m, k) == \E p \in m : p[1] = k
DictGet(m, k, dflt) == IF HasKey(m, k) THEN (CHOOSE p \in m : p[1] = k)[2] ELSE dflt
SetDefault(m, k, v) == IF HasKey(m, k) THEN m ELSE m \cup {<<k, v>>}

\* hashlib.sha256(content).hexdigest(), injective in content
sha256(content) == "sha256:" \o content

(* ---- models.py ---- *)
\* timestamp is the reading of the clock by datetime.utcnow()
ChainOfCustodyEvent(timestamp, actor, action, metadata) ==
    [timestamp |-> timestamp, actor |-> actor, action |-> action, metadata |-> metadata]

Custodian(identifier, display_name, email) ==
    [identifier |-> identifier, display_name |-> display_name, email |-> email]

\* EvidenceDocument.to_dict: every field, attachments without their payload
to_dict(doc) ==
    [document_id |-> doc.document_id,
     source |-> doc.source,
     custodian |-> doc.custodian,
     subject |-> doc.subject,
     body_text |-> doc.body_text,
     metadata |-> doc.metadata,
     attachments |-> [a \in DOMAIN doc.attachments |->
                         [filename |-> doc.attachments[a].filename,
                          checksum_sha256 |-> doc.attachments[a].checksum_sha256]],
     chain_of_custody |-> doc.chain_of_custody]

(* ---- what the external mailbox can hold: message templates ---- *)
Messages ==
    { [document_id |-> "m1", from |-> Custodian("alice", Some("Alice"), Some("alice")),
       subject |-> Some("a"), body_text |-> Some("bc"),
       metadata |-> {<<"importance", "normal">>},
       attachments |-> <<[filename |-> "f.txt", payload |-> "x"]>>],
      [document_id |-> "m2", from |-> Custodian("unknown", None, None),
       subject |-> Some("abc"), body_text |-> None,
       metadata |-> {},
       attachments |-> <<>>],
      [document_id |-> "m1", from |-> Custodian("alice", Some("Alice B"), Some("alice")),
       subject |-> None, body_text |-> Some("z"),
       metadata |-> {<<"importance", "normal">>, <<"matter_id", "acme">>},
       attachments |-> <<[filename |-> "f.txt", payload |-> "y"]>>] }

SeqsUpTo(S, n) == UNION { [1..k -> S] : k \in 0..n }

(* ---- processors.py ---- *)
\* line 20: content = (doc.subject or "") + (doc.body_text or "")
DedupContent(doc) == OrEmpty(doc.subject) \o OrEmpty(doc.body_text)

\* line 21: digest = sha256(content.encode("utf-8")).hexdigest()
DedupDigest(doc) == sha256(DedupContent(doc))

\* DedupStep without line 24, self._seen_hashes.add(digest)
DedupStep_NoAdd(acc, doc) ==
    IF DedupDigest(doc) \in acc.seen
    THEN acc
    ELSE [unique |-> Append(acc.unique,
                        [doc EXCEPT !.metadata =
                            SetDefault(doc.metadata, "hash_sha256", DedupDigest(doc))]),
          seen |-> acc.seen]

\* lines 22-26, one iteration of the loop on acc = [unique, seen]
\* DedupStep that puts a new document in front of the list
DedupStep_Prepend(acc, doc) ==
    IF DedupDigest(doc) \in acc.seen
    THEN acc
    ELSE [unique |-> <<[doc EXCEPT !.metadata =
                            SetDefault(doc.metadata, "hash_sha256", DedupDigest(doc))]>>
                     \o acc.unique,
          seen |-> acc.seen \cup {DedupDigest(doc)}]

DedupStep(acc, doc) ==
    IF DedupDigest(doc) \in acc.seen
    THEN acc
    ELSE [unique |-> Append(acc.unique,
                        [doc EXCEPT !.metadata =
                            SetDefault(doc.metadata, "hash_sha256", DedupDigest(doc))]),
          seen |-> acc.seen \cup {DedupDigest(doc)}]

RECURSIVE DedupLoop(_, _)
DedupLoop(acc, documents) ==
    IF documents = <<>> THEN acc
    ELSE DedupLoop(DedupStep(acc, Head(documents)), Tail(documents))

\* DeduplicationProcessor.process with _seen_hashes = seen:
\* [unique |-> the list returned, seen |-> _seen_hashes afterwards]
DeduplicationProcessor_process(documents, seen) ==
    DedupLoop([unique |-> <<>>, seen |-> seen], documents)

SetDefaultAll(documents, k, v) ==
    [n \in DOMAIN documents |->
        [documents[n] EXCEPT !.metadata = SetDefault(documents[n].metadata, k, v)]]

OCRProcessor_process(documents) == SetDefaultAll(documents, "ocr_status", "skipped_mock")

EntityExtractionProcessor_process(documents) == SetDefaultAll(documents, "entities", "[]")

PrivilegeDetectionProcessor_process(documents) ==
    SetDefaultAll(documents, "privilege_score", "0.0")

\* build_processors: the chain, as the names of the processor classes
build_processors(processing) ==
    (IF processing.enable_deduplication THEN <<"DeduplicationProcessor">> ELSE <<>>)
    \o (IF processing.enable_ocr THEN <<"OCRProcessor">> ELSE <<>>)
    \o (IF processing.enable_entity_extraction THEN <<"EntityExtractionProcessor">> ELSE <<>>)
    \o (IF processing.enable_privilege_detection
        THEN <<"PrivilegeDetectionProcessor">> ELSE <<>>)

DigestCount(docs, g) == Cardinality({n \in DOMAIN docs : DedupDigest(docs[n]) = g})

Digests(docs) == {DedupDigest(docs[n]) : n \in DOMAIN docs}

\* processor.process(processed) for one processor of the chain, on
\* st = [documents, seen, log, emitted, dropped]: log records the stages that
\* ran, in order; emitted and dropped the digests of the documents that
\* deduplication returned and those it left out
ProcessStage(st, processor) ==
    IF processor = "DeduplicationProcessor"
    THEN LET out == DeduplicationProcessor_process(st.documents, st.seen)
         IN [documents |-> out.unique,
             seen |-> out.seen,
             log |-> Append(st.log, processor),
             emitted |-> st.emitted \cup Digests(out.unique),
             dropped |-> st.dropped \cup
                 {g \in Digests(st.documents) :
                     DigestCount(st.documents, g) > DigestCount(out.unique, g)}]
    ELSE [st EXCEPT
             !.documents =
                 IF processor = "OCRProcessor" THEN OCRProcessor_process(st.documents)
                 ELSE IF processor = "EntityExtractionProcessor"
                      THEN EntityExtractionProcessor_process(st.documents)
                      ELSE PrivilegeDetectionProcessor_process(st.documents),
             !.log = Append(st.log, processor)]

\* IngestionPipeline._run_processors: the stages of the chain in order, each
\* on the output of the one before
RECURSIVE run_processors(_, _)
run_processors(st, chain) ==
    IF chain = <<>> THEN st
    ELSE run_processors(ProcessStage(st, Head(chain)), Tail(chain))

(* ---- file_processor.py, file_analyzer.py ---- *)
\* a payload of more than 22 bytes that starts with the ZIP signature and
\* has the token EncryptedPackage in its first 4 KiB; the other payloads of
\* the model have no magic bytes
EncryptedZip == "PK..EncryptedPackage"

\* an intact Word OpenXML file: it starts with the ZIP signature and has the
\* marker word/ in its first 4 KiB
IntactDocx == "PK..word/document.xml"

\* the MIME type of .docx files
DocxMime == "application/vnd.openxmlformats-officedocument.wordprocessingml.document"

\* file_analyzer.py:284  mimetypes.guess_type(filename)[0] or
\* 'application/octet-stream'
guess_type(filename) ==
    CASE filename = "f.txt" -> "text/plain"
      [] filename = "f.zip" -> "application/zip"
      [] filename = "f.docx" -> DocxMime
      [] OTHER -> "application/octet-stream"

\* file_analyzer.py:331-348: the type of the first signature of
\* FILE_SIGNATURES the data starts with (PK\x03\x04 is one of them), and
\* only without one the probe of ZIP data for the marker word/
detect_mime_from_magic(data) ==
    IF data \in {EncryptedZip, IntactDocx} THEN Some("application/zip")
    ELSE IF data = IntactDocx THEN Some(DocxMime)
    ELSE None

\* file_analyzer.py:421-437
mime_types_compatible(mime1, mime2) ==
    LET archives == {"application/zip", "application/x-zip-compressed"}
        office == {DocxMime}
        ms == {"application/vnd.ms-excel", "application/vnd.ms-powerpoint"}
    IN \/ mime1 = mime2
       \/ mime1 \in archives /\ mime2 \in archives
       \/ mime1 \in office /\ mime2 \in ms
       \/ mime2 \in office /\ mime1 \in ms

\* file_analyzer.py:439-456
is_encrypted(data) == data = EncryptedZip

\* file_analyzer.py:392-419; the payloads of the model pass the checks of
\* _check_corruption and _is_suspicious
assess_quality(filename, data) ==
    LET mime_type == guess_type(filename)
        detected_mime == detect_mime_from_magic(data)
    IN IF data = "" THEN "corrupted"
       ELSE IF /\ detected_mime /= None
               /\ mime_type /= "application/octet-stream"
               /\ ~mime_types_compatible(mime_type, detected_mime[1])
            THEN "invalid_format"
       ELSE IF is_encrypted(data) THEN "encrypted"
       ELSE "valid"

\* file_processor.py:59-70: the attachment with the results of analyze_bytes
\* written to it; the declared checksum_sha256 is neither read nor written
AnalysedAttachment(att) ==
    [filename |-> att.filename,
     payload |-> att.payload,
     checksum_sha256 |-> att.checksum_sha256,
     data_quality |-> Some(assess_quality(att.filename, att.payload)),
     md5_hash |-> Some(<<"md5", att.payload>>),
     detected_mime |-> detect_mime_from_magic(att.payload),
     is_processable |-> (/\ assess_quality(att.filename, att.payload)
                              \in {"valid", "suspicious"}
                         /\ att.payload /= "")]

\* file_processor.py:34-41
NoStats == [analyzed |-> 0, corrupted |-> 0, encrypted |-> 0, valid |-> 0, suspicious |-> 0]

\* the attachments of a batch, by document and place
AttachmentsOf(docs) ==
    { p \in (DOMAIN docs) \X {1} : p[2] \in DOMAIN docs[p[1]].attachments }

\* the attachments of a batch whose quality is q
WithQuality(docs, q) ==
    { p \in AttachmentsOf(docs) :
        assess_quality(docs[p[1]].attachments[p[2]].filename,
                       docs[p[1]].attachments[p[2]].payload) = q }

\* file_processor.py:72-81: the statistics after a batch
UpdateStats(st, docs) ==
    [analyzed |-> st.analyzed + Cardinality(AttachmentsOf(docs)),
     corrupted |-> st.corrupted + Cardinality(WithQuality(docs, "corrupted")),
     encrypted |-> st.encrypted + Cardinality(WithQuality(docs, "encrypted")),
     valid |-> st.valid + Cardinality(WithQuality(docs, "valid")),
     suspicious |-> st.suspicious + Cardinality(WithQuality(docs, "suspicious"))]

\* file_processor.py:45-105: every document is returned, its attachments
\* analysed
FileAnalysisProcessor_process(docs) ==
    [n \in DOMAIN docs |->
        [docs[n] EXCEPT !.attachments =
            [a \in DOMAIN docs[n].attachments |->
                AnalysedAttachment(docs[n].attachments[a])]]]

(* ---- storage.py: object stores ---- *)
\* the artifacts one persist call writes, in the order of the writes, as
\* <<key, content>>; json.dumps(x) is <<"json", x>>
LocalFilesystemObjectStore_writes(doc) ==
    (IF Truthy(doc.body_text)
     THEN << <<<<doc.source, doc.document_id, "body.txt">>, doc.body_text[1]>> >>
     ELSE <<>>)
    \o (IF doc.metadata /= {}
        THEN << <<<<doc.source, doc.document_id, "metadata.json">>,
                  <<"json", doc.metadata>>>> >>
        ELSE <<>>)
    \o [a \in DOMAIN doc.attachments |->
          <<<<doc.source, doc.document_id, doc.attachments[a].filename>>,
            doc.attachments[a].payload>>]

\* line 241: base_key = f"{source}/{matter_id}/{document_id}"
S3BaseKey(doc) ==
    <<doc.source, DictGet(doc.metadata, "matter_id", "default"), doc.document_id>>

S3ObjectStore_writes(doc) ==
    (IF Truthy(doc.body_text)
     THEN << <<S3BaseKey(doc) \o <<"body.txt">>, doc.body_text[1]>> >>
     ELSE <<>>)
    \o << <<S3BaseKey(doc) \o <<"metadata.json">>, <<"json", to_dict(doc)>>>> >>
    \o [a \in DOMAIN doc.attachments |->
          <<S3BaseKey(doc) \o <<"attachments", doc.attachments[a].filename>>,
            doc.attachments[a].payload>>]
    \o << <<S3BaseKey(doc) \o <<"custody_chain.json">>,
            <<"json", doc.chain_of_custody>>>> >>

ObjectStore_writes(store_type, doc) ==
    IF store_type = "s3" THEN S3ObjectStore_writes(doc)
    ELSE LocalFilesystemObjectStore_writes(doc)

\* one completed write: objs maps a key to the sequence of its versions,
\* oldest first.  Path.write_text / write_bytes and put_object on a bucket
\* without versioning replace the bytes; put_object on a versioned bucket
\* adds a version.
PutObject(objs, key, content, versioned) ==
    IF key \in DOMAIN objs /\ versioned
    THEN [objs EXCEPT ![key] = Append(@, content)]
    ELSE [k \in DOMAIN objs \cup {key} |-> IF k = key THEN <<content>> ELSE objs[k]]

\* the first n writes of ws completed
RECURSIVE ApplyWrites(_, _, _, _)
ApplyWrites(objs, ws, n, versioned) ==
    IF n = 0 THEN objs
    ELSE PutObject(ApplyWrites(objs, ws, n - 1, versioned), ws[n][1], ws[n][2], versioned)

\* storage.py:294-306, the event S3ObjectStore.persist appends
S3PersistedEvent(doc, now) ==
    ChainOfCustodyEvent(now, "s3_object_store", "persisted_to_s3",
        {<<"bucket", "bucket">>, <<"base_key", S3BaseKey(doc)>>, <<"region", "region">>})

\* the document after a persist that returned normally
PersistedDocument(store_type, doc, now) ==
    IF store_type = "s3"
    THEN [doc EXCEPT !.chain_of_custody = Append(@, S3PersistedEvent(doc, now))]
    ELSE doc

\* the tenacity wrapper of S3ObjectStore.persist calls it again after a
\* failed attempt, up to PERSIST_ATTEMPTS attempts; the local store has none
PersistRetries(store_type, attempt) == store_type = "s3" /\ attempt < PERSIST_ATTEMPTS

(* ---- storage.py: S3ObjectStore, its bucket and its uploads ---- *)
\* the state of a bucket on the server
Bucket(exists, versioning_status, encryption, public_access_block) ==
    [exists |-> exists, versioning |-> versioning_status, encryption |-> encryption,
     public_access_block |-> public_access_block]

NoBucket == Bucket(FALSE, FALSE, None, FALSE)

\* the buckets that may bear the name {prefix}-{tenant_id} before the store
\* is constructed: none, one without any configuration, one fully configured
Buckets == {NoBucket, Bucket(TRUE, FALSE, None, FALSE), Bucket(TRUE, TRUE, Some("AES256"), TRUE)}

\* lines 173-183: the default encryption the store asks for
SSEAlgorithm(kms_key_id) == IF kms_key_id /= None THEN "aws:kms" ELSE "AES256"

\* content lengths in MiB
ContentLengths == {1, 9}

\* line 333: content_length > self.MULTIPART_THRESHOLD
IsMultipart(content_length) == content_length > MULTIPART_THRESHOLD

\* lines 393-407: the number of chunks of MULTIPART_CHUNKSIZE
Parts(content_length) == (content_length + MULTIPART_CHUNKSIZE - 1) \div MULTIPART_CHUNKSIZE

\* stop_after_attempt that never stops
stop_after_attempt_Never(n) == FALSE

\* line 222: stop_after_attempt(3)
stop_after_attempt(n) == n >= PERSIST_ATTEMPTS

\* line 223: wait_exponential(multiplier=1, min=2, max=10)
persist_wait(n) ==
    IF 2 ^ (n - 1) < WAIT_MIN THEN WAIT_MIN
    ELSE IF 2 ^ (n - 1) > WAIT_MAX THEN WAIT_MAX
    ELSE 2 ^ (n - 1)

\* no S3ObjectStore has been constructed
NoS3 ==
    [pc |-> "idle", kms_key_id |-> None, enable_versioning |-> TRUE, bucket |-> NoBucket,
     contents |-> <<>>, i |-> 0, part_number |-> 0, uploads |-> <<>>, aborts |-> <<>>,
     attempt |-> 0, slept |-> <<>>, put_unprovisioned |-> FALSE, chain_of_custody |-> <<>>]

(* ---- scripts/ai_worker_parallel.py ---- *)
\* main has not been called
NoPool ==
    [pc |-> "idle", batch_size |-> 0, workers |-> 0, loop |-> FALSE, stored |-> 0,
     pending |-> <<>>]

\* lines 57-70: the number of rows the query of get_pending_documents
\* returns when stored documents have no ai_analysis row; LIMIT is added
\* only when limit is truthy
get_pending_documents(stored, limit) ==
    IF limit /= 0 /\ limit < stored THEN limit ELSE stored

\* the documents of the batch a thread of the executor is working on
InFlight(pending) == { i \in DOMAIN pending : pending[i] = "running" }

(* ---- scripts/ai_worker.py ---- *)
\* run_worker has not been called.  stored lists the documents of the store,
\* newest first: whether the document has an ai_analysis row and whether
\* its analysis succeeds when attempted
NoWorker ==
    [pc |-> "idle", batch_size |-> 0, run_once |-> FALSE, stored |-> <<>>,
     documents |-> <<>>, i |-> 0, success_count |-> 0]

StoredDocument(analyzed, succeeds) == [analyzed |-> analyzed, succeeds |-> succeeds]

\* the places of stored whose document has no ai_analysis row, in the order
\* of collected_at DESC
PendingPlaces(stored) ==
    SelectSeq([n \in DOMAIN stored |-> n], LAMBDA n : ~stored[n].analyzed)

\* ai_worker.py:35-54: the first batch_size pending documents
pending_documents(stored, batch_size) ==
    LET places == PendingPlaces(stored)
    IN SubSeq(places, 1, IF Len(places) < batch_size THEN Len(places) ELSE batch_size)

(* ---- web/app.py: the map of the job progress records ---- *)
\* a request of api_custom_ai_analysis that has not arrived
NoRequest == [pc |-> "none", job_id |-> None, total |-> 0]

\* app.py:589: custom_ai_progress = {}; no request is served; time.time()
\* is 0; the status endpoint has answered nothing
NoWeb ==
    [custom_ai_progress |-> [k \in {} |-> <<>>], time |-> 0,
     requests |-> [r \in 1..MaxRequests |-> NoRequest], status |-> None]

\* app.py:617: hashlib.md5(f"{time.time()}".encode()).hexdigest()[:12]
JobId(time) == <<"md5", time>>

\* app.py:620-625
ProgressEntry(total) == [total |-> total, processed |-> 0, completed |-> FALSE]

(* ---- storage.py: the buckets of the tenants ---- *)
\* no store of S3ObjectStore is constructed, no object is written
NoTenants ==
    [stores |-> [k \in 1..MaxStores |-> None], writers |-> [b \in {} |-> {}]]

TenantIds == {"acme", "corp", "acme-corp"}
BucketPrefixes == {"ediscovery", "ediscovery-acme"}

\* line 99: self._bucket_name = f"{self._bucket_prefix}-{self._tenant_id}"
BucketName(bucket_prefix, tenant_id) == bucket_prefix \o "-" \o tenant_id

(* ---- storage.py: metadata stores ---- *)
\* The tables a reader sees.  custodians is keyed by identifier and documents
\* by document_id (the ON CONFLICT targets); attachments and custody_events
\* refer to a document by its surrogate id, which is one-to-one with
\* document_id and is modelled by it.  The SQLite store has the documents
\* table alone.
EmptyMap == [k \in {} |-> <<>>]

EmptyDb ==
    [custodians |-> EmptyMap, documents |-> EmptyMap, attachments |-> EmptyMap,
     custody_events |-> {}]

\* no transaction is open
NoTx == "none"

\* Rollback with the transaction committed instead of rolled back
Rollback_Commit(committed, executed) == executed

\* conn.rollback(), and conn.close() on a connection that was not committed:
\* the tables readers see after a transaction that executed some statements
\* on the committed tables is ended this way
Rollback(committed, executed) == committed

\* INSERT ... ON CONFLICT (key) DO UPDATE / INSERT OR REPLACE of one row
Upsert(table, key, row) ==
    [k \in DOMAIN table \cup {key} |-> IF k = key THEN row ELSE table[k]]

\* storage.py:525-534
SqliteDocumentRow(doc) ==
    [source |-> doc.source,
     custodian_id |-> doc.custodian.identifier,
     custodian_email |-> doc.custodian.email,
     subject |-> doc.subject,
     metadata_json |-> <<"json", doc.metadata>>]

\* storage.py:716-725
PostgresDocumentRow(doc) ==
    [source |-> doc.source,
     custodian_id |-> doc.custodian.identifier,
     subject |-> doc.subject,
     body_text |-> doc.body_text,
     metadata_json |-> <<"json", doc.metadata>>]

\* storage.py:668-687
upsert_custodian(db, doc) ==
    [db EXCEPT !.custodians =
        Upsert(@, doc.custodian.identifier,
               [display_name |-> doc.custodian.display_name, email |-> doc.custodian.email])]

\* storage.py:689-727
upsert_document(db, doc) ==
    [db EXCEPT !.documents = Upsert(@, doc.document_id, PostgresDocumentRow(doc))]

\* storage.py:729-756: nothing for a document without attachments, else the
\* rows of the document are deleted and the new ones inserted
insert_attachments(db, doc) ==
    IF doc.attachments = <<>> THEN db
    ELSE [db EXCEPT !.attachments =
            Upsert(@, doc.document_id,
                   [a \in DOMAIN doc.attachments |->
                       [filename |-> doc.attachments[a].filename,
                        checksum_sha256 |-> doc.attachments[a].checksum_sha256]])]

\* storage.py:764-770
CustodyEventRow(doc, event) ==
    [document_id |-> doc.document_id, event_timestamp |-> event.timestamp,
     actor |-> event.actor, action |-> event.action,
     metadata_json |-> <<"json", event.metadata>>]

\* UNIQUE (document_id, event_timestamp, actor, action) of custody_events
CustodyEventKey(row) == <<row.document_id, row.event_timestamp, row.actor, row.action>>

\* INSERT ... ON CONFLICT DO NOTHING of one row
InsertCustodyEvent(table, row) ==
    IF \E r \in table : CustodyEventKey(r) = CustodyEventKey(row)
    THEN table
    ELSE table \cup {row}

RECURSIVE InsertCustodyEvents(_, _, _)
InsertCustodyEvents(table, doc, events) ==
    IF events = <<>> THEN table
    ELSE InsertCustodyEvents(InsertCustodyEvent(table, CustodyEventRow(doc, Head(events))),
                             doc, Tail(events))

\* insert_custody_events with the rows of the document deleted first, as
\* insert_attachments does
insert_custody_events_Replace(db, doc) ==
    [db EXCEPT !.custody_events =
        InsertCustodyEvents({r \in @ : r.document_id /= doc.document_id}, doc,
                            doc.chain_of_custody)]

\* storage.py:758-782
insert_custody_events(db, doc) ==
    [db EXCEPT !.custody_events = InsertCustodyEvents(@, doc, doc.chain_of_custody)]

\* the statements bulk_index executes for one document, in order
IndexStatements(store_type) ==
    IF store_type = "postgres"
    THEN <<"upsert_custodian", "upsert_document", "insert_attachments",
           "insert_custody_events">>
    ELSE <<"insert_or_replace">>

ExecStatement(db, statement, doc) ==
    CASE statement = "upsert_custodian" -> upsert_custodian(db, doc)
      [] statement = "upsert_document" -> upsert_document(db, doc)
      [] statement = "insert_attachments" -> insert_attachments(db, doc)
      [] statement = "insert_custody_events" -> insert_custody_events(db, doc)
      [] statement = "insert_or_replace" ->
            [db EXCEPT !.documents = Upsert(@, doc.document_id, SqliteDocumentRow(doc))]

\* the first n statements of one document executed
RECURSIVE IndexDocument(_, _, _, _)
IndexDocument(store_type, db, doc, n) ==
    IF n = 0 THEN db
    ELSE ExecStatement(IndexDocument(store_type, db, doc, n - 1),
                       IndexStatements(store_type)[n], doc)

\* the statements of every document of docs executed, in list order
RECURSIVE IndexDocuments(_, _, _)
IndexDocuments(store_type, db, docs) ==
    IF docs = <<>> THEN db
    ELSE IndexDocuments(store_type,
            IndexDocument(store_type, db, Head(docs), Len(IndexStatements(store_type))),
            Tail(docs))

(* ---- connectors ---- *)
\* registry.py:16-21
Registry == {"mock_email", "microsoft_graph", "google_workspace", "cloud_storage"}

\* connectors whose fetch() is raise NotImplementedError
FetchNotImplemented == {"google_workspace", "cloud_storage"}

\* microsoft_graph.py:278-286, the Attachment made from one file attachment
GraphAttachment(att) ==
    [filename |-> att.filename, payload |-> att.payload,
     checksum_sha256 |-> Some(sha256(att.payload))]

\* microsoft_graph.py:313-385, the document made from one message at time now
GraphDocument(cfg, msg, now) ==
    [document_id |-> msg.document_id,
     source |-> cfg.name,
     custodian |-> msg.from,
     subject |-> msg.subject,
     body_text |-> msg.body_text,
     metadata |-> msg.metadata,
     attachments |-> [a \in DOMAIN msg.attachments |-> GraphAttachment(msg.attachments[a])],
     chain_of_custody |->
        <<ChainOfCustodyEvent(now, "MicrosoftGraphConnector", "collected",
                              {<<"source", cfg.name>>})>>]

\* microsoft_graph.py:389-437: the documents of the messages, collected at
\* times now + 1, now + 2, ...
MicrosoftGraphConnector_fetch(cfg, messages, now) ==
    [n \in DOMAIN messages |-> GraphDocument(cfg, messages[n], now + n)]

(* ---- microsoft_graph.py: the attachments of a message ---- *)
\* no connector is constructed
NoMailbox == [messages |-> <<>>, include_attachments |-> TRUE]

\* the attachments of a message as GET /messages/{id}/attachments lists them
FileAttachment(name, content) ==
    [odata_type |-> "#microsoft.graph.fileAttachment", filename |-> name, payload |-> content]

ItemAttachment(name) ==
    [odata_type |-> "#microsoft.graph.itemAttachment", filename |-> name, payload |-> ""]

\* messages of a mailbox: hasAttachments is true of a message that has some
MailboxMessages ==
    { [m EXCEPT !.attachments = atts] :
         m \in {m \in Messages : m.document_id = "m2"},
         atts \in {<<>>,
                   <<FileAttachment("f.txt", "x")>>,
                   <<FileAttachment("f.txt", "x"), ItemAttachment("fwd.eml"),
                     FileAttachment("g.txt", "y")>>} }

hasAttachments(message) == message.attachments /= <<>>

\* lines 269-296: the Attachments made from the file attachments of a response
RECURSIVE FileAttachmentsOf(_)
FileAttachmentsOf(value) ==
    IF value = <<>> THEN <<>>
    ELSE (IF Head(value).odata_type = "#microsoft.graph.fileAttachment"
          THEN <<GraphAttachment(Head(value))>> ELSE <<>>)
         \o FileAttachmentsOf(Tail(value))

\* lines 253-302: Some(list) is a return, None an exception.  The request
\* of line 266 raises or answers with the attachments of the message
fetch_attachments(include_attachments, message, request_raises) ==
    IF ~include_attachments THEN Some(<<>>)
    ELSE IF request_raises THEN Some(<<>>)
    ELSE Some(FileAttachmentsOf(message.attachments))

\* lines 304-387: the document of one message, None when the conversion raises
convert_message_to_document(cfg, include_attachments, message, request_raises, now) ==
    LET attachments == IF hasAttachments(message)
                       THEN fetch_attachments(include_attachments, message, request_raises)
                       ELSE Some(<<>>)
    IN IF attachments = None THEN None
       ELSE Some([GraphDocument(cfg, message, now) EXCEPT !.attachments = attachments[1]])

\* mock_email.py:23-50, the document of index idx
MockEmailDocument(cfg, idx) ==
    [document_id |-> <<"mock-email", idx>>,
     source |-> cfg.name,
     custodian |-> Custodian(<<"custodian", idx>>, None, Some(<<"user", idx>>)),
     subject |-> Some(<<"Project Falcon Update", idx>>),
     body_text |-> Some("status"),
     metadata |-> {<<"message_id", <<"mock", idx>>>>, <<"thread_id", "falcon-initiative">>},
     attachments |-> <<[filename |-> "status.txt", payload |-> "status",
                        checksum_sha256 |-> Some(sha256("status"))]>>,
     chain_of_custody |-> <<>>]

\* mock_email.py:19-52
MockEmailConnector_fetch(cfg, batch_size) ==
    [n \in 1..batch_size |-> MockEmailDocument(cfg, n - 1)]

\* the files of an Enron data directory: readable JSON or not, with or
\* without a subject and a body
EnronFiles ==
    { [stem |-> "1", readable |-> TRUE, from |-> "ken.lay", subject |-> Some("a"),
       body |-> Some("bc")],
      [stem |-> "2", readable |-> TRUE, from |-> "jeff", subject |-> None, body |-> None],
      [stem |-> "3", readable |-> FALSE, from |-> "", subject |-> None, body |-> None] }

\* enron.py:64-93, the document of one file
EnronDocument(cfg, file) ==
    [document_id |-> <<"enron", file.stem>>,
     source |-> cfg.name,
     custodian |-> Custodian(file.from, Some(<<"title", file.from>>), Some(file.from)),
     subject |-> Some(IF file.subject = None THEN "No Subject" ELSE file.subject[1]),
     body_text |-> Some(OrEmpty(file.body)),
     metadata |-> {<<"from", file.from>>, <<"dataset", "enron">>},
     attachments |-> <<>>,
     chain_of_custody |-> <<>>]

\* enron.py:47-101: a file that cannot be read or parsed is skipped
RECURSIVE EnronConnector_fetch(_, _)
EnronConnector_fetch(cfg, files) ==
    IF files = <<>> THEN <<>>
    ELSE (IF Head(files).readable THEN <<EnronDocument(cfg, Head(files))>> ELSE <<>>)
         \o EnronConnector_fetch(cfg, Tail(files))

\* the class names of the connectors, by configuration type
ConnectorClass(type) ==
    CASE type = "mock_email" -> "MockEmailConnector"
      [] type = "microsoft_graph" -> "MicrosoftGraphConnector"
      [] type = "enron" -> "EnronConnector"

(* ---- microsoft_graph.py: HTTP responses ---- *)
NoResponse == [status |-> "none", retry_after |-> None]

\* what requests.request can come back with: a response with a status code
\* and, for 429, a Retry-After header or none; or a RequestException
Responses ==
    { [status |-> st, retry_after |-> None] : st \in {"200", "401", "429", "500", "exception"} }
    \cup { [status |-> "429", retry_after |-> Some(ra)] : ra \in {1, 5} }

\* line 157: int(response.headers.get("Retry-After", 60))
retry_after(resp) ==
    IF resp.retry_after = None THEN DEFAULT_RETRY_AFTER ELSE resp.retry_after[1]

Min(a, b) == IF a < b THEN a ELSE b
Max(a, b) == IF a > b THEN a ELSE b

\* tenacity wait_exponential(multiplier=1, min=2, max=10) after attempt n
wait_exponential(n) == Max(WAIT_MIN, Min(2 ^ (n - 1), WAIT_MAX))

(* ---- web/app.py, web/app_parallel.py: enrichment jobs ---- *)
\* no entry of custom_ai_progress
NoJob ==
    [total |-> 0, processed |-> 0, completed |-> FALSE, started |-> FALSE,
     current_document |-> None, current_subject |-> None,
     results |-> <<>>, redactions |-> <<>>]

\* the document ids of table documents, and one that is not there
StoredIds == {"d1"}
JobIds == StoredIds \cup {"nx"}

\* an answer of the LLM: its free text and the fields the regular
\* expressions of app_parallel.py:106-116 find in it, None where they do not
LlmResponse(text, relevance, privilege_risk, classification, key_findings) ==
    [text |-> text, relevance |-> relevance, privilege_risk |-> privilege_risk,
     classification |-> classification, key_findings |-> key_findings]

CannotAnswer == LlmResponse("I cannot answer.", None, None, None, None)

LlmResponses ==
    { CannotAnswer,
      LlmResponse("accounting fraud", Some(80), Some(10), Some("relevant"), Some("kf")) }

\* answers whose RELEVANCE: or PRIVILEGE_RISK: field has digits of a number
\* above 100; \d+ of lines 105 and 108 matches any run of digits
ScoreResponses ==
    LlmResponses \cup
    { LlmResponse("RELEVANCE: 150", Some(150), Some(10), Some("relevant"), Some("kf")),
      LlmResponse("PRIVILEGE_RISK: 250", Some(30), Some(250), Some("not-relevant"), None) }

\* custom prompts; the request handler refuses an empty one
Prompts == {"summarise", "look for fraud"}

\* the keywords of lines 120-125 that occur in a lowercased text
TextWords(text) ==
    IF text \in {"accounting fraud", "look for fraud"} THEN {"fraud"} ELSE {}

\* the keywords in ai_response.lower(): those of the free text, and
\* "privilege" of the label PRIVILEGE_RISK: when the answer has that field
ResponseWords(raw) ==
    TextWords(raw.text) \cup (IF raw.privilege_risk /= None THEN {"privilege"} ELSE {})

\* app_parallel.py:118-125
ExtractTopics(raw, prompt) ==
    (IF "fraud" \in ResponseWords(raw) \/ "fraud" \in TextWords(prompt)
     THEN <<"Financial Fraud">> ELSE <<>>)
    \o (IF "privilege" \in ResponseWords(raw) \/ "attorney" \in ResponseWords(raw)
        THEN <<"Attorney-Client">> ELSE <<>>)
    \o (IF "compliance" \in ResponseWords(raw) \/ "regulatory" \in ResponseWords(raw)
        THEN <<"Compliance">> ELSE <<>>)

\* app_parallel.py:105-125: the parsed answer, defaults for missing fields
ParseResponse(raw, prompt) ==
    [relevance_score |-> IF raw.relevance = None THEN 50 ELSE raw.relevance[1],
     privilege_risk |-> IF raw.privilege_risk = None THEN 0 ELSE raw.privilege_risk[1],
     classification |-> IF raw.classification = None THEN "needs-review"
                        ELSE raw.classification[1],
     key_findings |-> OrEmpty(raw.key_findings),
     topics |-> ExtractTopics(raw, prompt)]

\* what is parsed before any answer
NoAiResponse == ParseResponse(CannotAnswer, "")

\* app_parallel.py:166-183
tags_to_create(r) ==
    { IF r.classification = "relevant" THEN "AI: Relevant"
      ELSE IF r.classification = "not-relevant" THEN "AI: Not Relevant"
      ELSE "AI: Needs Review" }
    \cup { IF r.relevance_score >= 70 THEN "High Priority"
           ELSE IF r.relevance_score >= 40 THEN "Medium Priority"
           ELSE "Low Priority" }
    \cup { r.topics[n] : n \in DOMAIN r.topics }

\* app_parallel.py:160, app.py:746: f"Custom Analysis:\n{ai_response}"
CustomAnalysisNote(raw) == <<"Custom Analysis:", raw.text>>

\* the E'\n\n--- Custom AI Analysis ---\n' between two notes
NotesSeparator == <<"--- Custom AI Analysis ---">>

\* AppendReviewNotes that stores the new notes in place of the old ones
AppendReviewNotes_Replace(table, doc_id, notes) == Upsert(table, doc_id, <<notes>>)

\* app_parallel.py:149-160, app.py:735-746: INSERT INTO user_review ... ON
\* CONFLICT (document_id) DO UPDATE SET review_notes = review_notes ||
\* separator || notes
AppendReviewNotes(table, doc_id, notes) ==
    Upsert(table, doc_id,
           IF doc_id \in DOMAIN table
           THEN table[doc_id] \o <<NotesSeparator, notes>>
           ELSE <<notes>>)

(* ---- web/app.py: api_search ---- *)
\* no search request
NoSearch ==
    [query |-> "", custodian |-> "", api_key |-> FALSE, tx_error |-> FALSE,
     count_failed |-> FALSE, embeddings_count |-> 0, embed_failed |-> FALSE,
     use_semantic |-> FALSE, query_embedding |-> None, relevance |-> "none",
     params |-> <<>>, executed |-> FALSE, success |-> FALSE]

\* conn.rollback() that leaves the transaction in its error state
rollback_Skipped(tx_error) == tx_error

\* app.py:138  conn.rollback(): the error state of the transaction is cleared
rollback(tx_error) == FALSE

\* app.py:141-150: the relevance column of the main query
RelevanceColumn(sr) ==
    IF sr.use_semantic /\ sr.query_embedding /= None THEN "vector"
    ELSE IF sr.query /= "" THEN "ts_rank"
    ELSE "none"

\* app.py:161-173: the parameters of the main query
SearchParams(sr) ==
    (IF sr.use_semantic /\ sr.query_embedding /= None THEN sr.query_embedding
     ELSE IF sr.query /= "" THEN <<sr.query, sr.query>>
     ELSE <<>>)
    \o (IF sr.custodian /= "" THEN <<"%" \o sr.custodian \o "%">> ELSE <<>>)

(* ---- configurations the pipeline is constructed with ---- *)
Connector(type, name, enabled) == [type |-> type, name |-> name, enabled |-> enabled]

ConnectorLists ==
    { <<Connector("microsoft_graph", "mbx1", TRUE), Connector("microsoft_graph", "mbx2", TRUE)>>,
      <<Connector("microsoft_graph", "mbx1", FALSE), Connector("microsoft_graph", "mbx2", TRUE)>>,
      <<Connector("cloud_storage", "bucket1", TRUE), Connector("microsoft_graph", "mbx2", TRUE)>>,
      <<Connector("enron", "enron1", TRUE), Connector("microsoft_graph", "mbx2", TRUE)>> }

Processing(dedup, ocr, entity, privilege) ==
    [enable_deduplication |-> dedup, enable_ocr |-> ocr,
     enable_entity_extraction |-> entity, enable_privilege_detection |-> privilege]

\* config.py:26-30 defaults, every stage enabled, every stage disabled
ProcessingConfigs ==
    { Processing(TRUE, TRUE, TRUE, FALSE),
      Processing(TRUE, TRUE, TRUE, TRUE),
      Processing(FALSE, FALSE, FALSE, FALSE) }

ObjectStoreTypes == {"local_fs", "s3"}

\* storage.py:873-879
MetadataStoreTypes == {"sqlite", "postgres"}

VARIABLES
    config,           \* AppConfig: connectors, processing, object_store type
    versioning,       \* the bucket has versioning enabled (S3 only)
    processors,       \* IngestionPipeline._processors
    seen_hashes,      \* DeduplicationProcessor._seen_hashes
    objects,          \* object store: key -> versions, oldest first
    db,               \* metadata store: the committed tables
    pc,               \* where run() is
    run_no,           \* calls of run() so far
    ci,               \* index of connector_config in the for loop
    documents,        \* local variable documents of run()
    pj,               \* index of document in the persist loop
    attempt,          \* attempt number of the persist call in progress
    results,          \* local variable results of run()
    faults,           \* calls that met a failure so far
    fetched,          \* documents fetched so far
    clock,            \* readings of datetime.utcnow() so far
    h_started,        \* history: connectors of this run() that were created
    h_persisted,      \* history: documents whose persist returned normally, this run()
    h_failed,         \* history: documents whose persist call raised, this run()
    h_indexed,        \* history: documents bulk_index committed, this run()
    h_index_arg,      \* history: arguments of the bulk_index calls of this run()
    h_stage_log,      \* history: stages run on the current batch, in order
    h_emitted,        \* history: digests deduplication emitted, this run()
    h_dropped,        \* history: digests deduplication dropped, this run()
    h_call_objects,   \* history: the object store when the persist call began
    dd_input,         \* the batch a DeduplicationProcessor under test is given
    tx,               \* metadata store: the tables as the open transaction sees them
    h_call_db,        \* history: the committed tables when bulk_index was called
    token,            \* MicrosoftGraphConnector._access_token
    response,         \* local variable response of _make_graph_request
    waited,           \* seconds slept since the last HTTP response
    reauths,          \* history: tokens acquired in answer to a 401, this call
    folders,          \* MicrosoftGraphConnector._folders
    max_messages,     \* MicrosoftGraphConnector._max_messages
    folder_no,        \* fetch: the place of folder_name in self._folders
    url,              \* _fetch_messages_from_folder: the page url points at, 0 for None
    messages_fetched, \* _fetch_messages_from_folder: local variable messages_fetched
    progress,         \* custom_ai_progress[job_id]
    document_ids,     \* the document ids of the enrichment job
    create_tags,      \* argument create_tags of the job
    parallel,         \* the job runs process_custom_ai_analysis_parallel
    workers,          \* per document id: where its analysis stands, its AI response
    ai_analysis,      \* table ai_analysis, committed rows by document_id
    user_review,      \* table user_review, committed review_notes by document_id
    user_tags,        \* table user_tags, committed (document_id, tag_name) rows
    custom_prompt,    \* argument custom_prompt of the job
    redaction_mode,   \* argument redaction_mode of the job
    progress_lock,    \* progress_lock: 0 when free, else the worker that holds it
    search,           \* api_search: the request, its local variables, its response
    stats,            \* FileAnalysisProcessor.stats
    s3,               \* S3ObjectStore: its fields, the bucket, a persist call
    sent,             \* the HTTP requests _make_graph_request has sent in this call
    pool,             \* ai_worker_parallel.main: its arguments, the batch, the store
    ai_worker,        \* ai_worker.run_worker: its arguments, the batch, the store
    web,              \* web/app.py: custom_ai_progress, the requests being served, the time
    tenants,          \* the S3ObjectStores of several tenants and who wrote to which bucket
    mailbox           \* microsoft_graph.py: the messages fetch() converts, attachment requests

vars == <<config, versioning, processors, seen_hashes, objects, db, pc,
          run_no, ci, documents, pj, attempt, results, faults, fetched, clock,
          h_started, h_persisted, h_failed, h_indexed, h_index_arg, h_stage_log, h_emitted,
          h_dropped, h_call_objects, dd_input, tx, h_call_db, token, response, waited,
          reauths, folders, max_messages, folder_no, url, messages_fetched, progress,
          document_ids, create_tags, parallel, workers, ai_analysis, user_review,
          user_tags, custom_prompt, redaction_mode, progress_lock, search,
          stats, s3, sent, pool, ai_worker, web, tenants, mailbox>>

\* the variables of the metadata store's transaction
index_vars == <<tx, h_call_db>>

\* the variables of a Graph API request
graph_vars == <<token, response, waited, reauths, sent>>

\* the variables of MicrosoftGraphConnector.fetch
folder_vars == <<folders, max_messages, folder_no, url, messages_fetched>>

\* the variables of an enrichment job
job_inputs == <<document_ids, create_tags, parallel, custom_prompt, redaction_mode>>

job_tables == <<ai_analysis, user_review, user_tags>>

job_vars == <<progress, workers, progress_lock, job_inputs, job_tables>>

\* the variables of the web search, of S3 uploads, of the enrichment worker
ext_vars == <<search, stats, s3, pool, ai_worker, web, tenants, mailbox>>

aux_vars == <<index_vars, graph_vars, folder_vars, job_vars, ext_vars>>

pipeline_vars == <<config, versioning, processors, dd_input, aux_vars>>
store_vars == <<objects, db>>
hist_vars == <<h_started, h_persisted, h_failed, h_indexed, h_index_arg, h_stage_log,
               h_emitted, h_dropped, h_call_objects>>

\* IngestionPipeline.__init__ and the stores' constructors have returned, for
\* a configuration of configs
InitConfig(configs) ==
    /\ config \in configs
    /\ versioning \in (IF config.object_store = "s3" THEN BOOLEAN ELSE {FALSE})
    /\ processors = build_processors(config.processing)
    /\ seen_hashes = {}
    /\ objects = EmptyMap
    /\ db = EmptyDb
    /\ pc = "idle"
    /\ run_no = 0
    /\ ci = 0
    /\ documents = <<>>
    /\ pj = 0
    /\ attempt = 0
    /\ results = <<>>
    /\ faults = 0
    /\ fetched = 0
    /\ clock = 0
    /\ h_started = {}
    /\ h_persisted = {}
    /\ h_failed = {}
    /\ h_indexed = {}
    /\ h_index_arg = <<>>
    /\ h_stage_log = <<>>
    /\ h_emitted = {}
    /\ h_dropped = {}
    /\ h_call_objects = EmptyMap
    /\ dd_input = <<>>
    /\ tx = NoTx
    /\ h_call_db = EmptyDb
    /\ token = None
    /\ response = NoResponse
    /\ waited = 0
    /\ reauths = 0
    /\ folders = <<"Inbox">>
    /\ max_messages = None
    /\ folder_no = 0
    /\ url = 0
    /\ messages_fetched = 0
    /\ progress = NoJob
    /\ document_ids = <<>>
    /\ create_tags = FALSE
    /\ parallel = FALSE
    /\ workers = <<>>
    /\ ai_analysis = EmptyMap
    /\ user_review = EmptyMap
    /\ user_tags = {}
    /\ custom_prompt = ""
    /\ redaction_mode = FALSE
    /\ progress_lock = 0
    /\ search = NoSearch
    /\ stats = NoStats
    /\ s3 = NoS3
    /\ sent = 0
    /\ pool = NoPool
    /\ ai_worker = NoWorker
    /\ web = NoWeb
    /\ tenants = NoTenants
    /\ mailbox = NoMailbox

\* the configurations whose metadata store is one of metadata_stores
InitWith(metadata_stores) ==
    InitConfig([connectors : ConnectorLists, processing : ProcessingConfigs,
                object_store : ObjectStoreTypes, metadata_store : metadata_stores])

\* the pipeline with the SQLite metadata store
Init == InitWith({"sqlite"})

\* the pipeline with the PostgreSQL metadata store
InitPostgres == InitWith({"postgres"})

(* ---- pipeline.py: IngestionPipeline.run ---- *)
DocIds(docs) == {docs[n].document_id : n \in DOMAIN docs}

\* the histories name a document of a run() by the connector of its batch,
\* its place in the batch and its document_id: document ids are not unique
\* across batches, nor within one
Instance(c, n, docs) == [connector |-> c, n |-> n, document_id |-> docs[n].document_id]
Instances(c, docs) == {Instance(c, n, docs) : n \in DOMAIN docs}
InstanceIds(S) == {x.document_id : x \in S}

connector_config == config.connectors[ci]

\* a call of run(): line 34
StartRun ==
    /\ run_no' = run_no + 1
    /\ pc' = "for"
    /\ ci' = 1
    /\ results' = <<>>
    /\ documents' = <<>>
    /\ pj' = 0
    /\ attempt' = 0
    /\ h_started' = {}
    /\ h_persisted' = {}
    /\ h_failed' = {}
    /\ h_indexed' = {}
    /\ h_index_arg' = <<>>
    /\ h_stage_log' = <<>>
    /\ h_emitted' = {}
    /\ h_dropped' = {}
    /\ UNCHANGED <<pipeline_vars, clock, seen_hashes, store_vars, faults, fetched, h_call_objects>>

\* the first call of run() on the pipeline object
RunCall ==
    /\ pc = "idle"
    /\ StartRun

\* run() is called again on the same pipeline object, after the previous
\* call returned or raised
RunAgain ==
    /\ pc \in {"returned", "raised"}
    /\ run_no < MaxRuns
    /\ StartRun

\* line 57: the loop is over, return results
RunReturn ==
    /\ pc = "for"
    /\ ci > Len(config.connectors)
    /\ pc' = "returned"
    /\ UNCHANGED <<pipeline_vars, clock, seen_hashes, store_vars, run_no, ci, documents, pj,
                   attempt, results, faults, fetched, hist_vars>>

\* lines 36-38: continue
SkipDisabled ==
    /\ pc = "for"
    /\ ci <= Len(config.connectors)
    /\ ~connector_config.enabled
    /\ ci' = ci + 1
    /\ UNCHANGED <<pipeline_vars, clock, seen_hashes, store_vars, pc, run_no, documents, pj,
                   attempt, results, faults, fetched, hist_vars>>

\* line 39, ConnectorFactory.create: the type is registered
CreateConnector ==
    /\ pc = "for"
    /\ ci <= Len(config.connectors)
    /\ connector_config.enabled
    /\ connector_config.type \in Registry
    /\ pc' = "fetch"
    /\ h_started' = h_started \cup {ci}
    /\ UNCHANGED <<pipeline_vars, clock, seen_hashes, store_vars, run_no, ci, documents, pj,
                   attempt, results, faults, fetched, h_persisted, h_failed, h_indexed,
                   h_index_arg, h_stage_log, h_emitted, h_dropped, h_call_objects>>

\* line 39, base.py:21-22: ValueError for an unknown type; run() has no handler
CreateConnectorRaise ==
    /\ pc = "for"
    /\ ci <= Len(config.connectors)
    /\ connector_config.enabled
    /\ connector_config.type \notin Registry
    /\ pc' = "raised"
    /\ h_started' = h_started \cup {ci}
    /\ UNCHANGED <<pipeline_vars, clock, seen_hashes, store_vars, run_no, ci, documents, pj,
                   attempt, results, faults, fetched, h_persisted, h_failed, h_indexed,
                   h_index_arg, h_stage_log, h_emitted, h_dropped, h_call_objects>>

\* line 41: documents = list(connector.fetch()), the mailbox returns a batch
Fetch ==
    /\ pc = "fetch"
    /\ connector_config.type = "microsoft_graph"
    /\ \E batch \in SeqsUpTo(Messages, MaxDocs - fetched) :
          /\ fetched' = fetched + Len(batch)
          /\ documents' = MicrosoftGraphConnector_fetch(connector_config, batch, clock)
          /\ clock' = clock + Len(batch)
    /\ pc' = "process"
    /\ UNCHANGED <<pipeline_vars, seen_hashes, store_vars, run_no, ci, pj, attempt,
                   results, faults, hist_vars>>

\* line 41: fetch() raises (NotImplementedError of the skeleton connectors,
\* microsoft_graph.py:435-437 re-raising a fatal error); run() has no handler
FetchRaise ==
    /\ pc = "fetch"
    /\ \/ /\ connector_config.type \in FetchNotImplemented
          /\ faults' = faults
       \/ /\ connector_config.type = "microsoft_graph"
          /\ faults < MaxFaults
          /\ faults' = faults + 1
    /\ pc' = "raised"
    /\ UNCHANGED <<pipeline_vars, clock, seen_hashes, store_vars, run_no, ci, documents, pj,
                   attempt, results, fetched, hist_vars>>

\* line 42: documents = self._run_processors(documents)
RunProcessors ==
    /\ pc = "process"
    /\ LET st == run_processors([documents |-> documents, seen |-> seen_hashes,
                                 log |-> <<>>, emitted |-> h_emitted,
                                 dropped |-> h_dropped], processors)
       IN /\ documents' = st.documents
          /\ seen_hashes' = st.seen
          /\ h_stage_log' = st.log
          /\ h_emitted' = st.emitted
          /\ h_dropped' = st.dropped
    /\ pc' = "persist"
    /\ pj' = 1
    /\ attempt' = 1
    /\ h_call_objects' = objects
    /\ UNCHANGED <<pipeline_vars, clock, store_vars, run_no, ci, results, faults, fetched,
                   h_started, h_persisted, h_failed, h_indexed, h_index_arg>>

\* lines 43-44: self._object_store.persist(document) returns normally
Persist ==
    /\ pc = "persist"
    /\ pj <= Len(documents)
    /\ LET doc == documents[pj]
           ws == ObjectStore_writes(config.object_store, doc)
       IN /\ objects' = ApplyWrites(objects, ws, Len(ws), versioning)
          /\ documents' = [documents EXCEPT
                               ![pj] = PersistedDocument(config.object_store, doc, clock + 1)]
          /\ clock' = (IF config.object_store = "s3" THEN clock + 1 ELSE clock)
          /\ h_persisted' = h_persisted \cup {Instance(ci, pj, documents)}
    /\ pj' = pj + 1
    /\ attempt' = 1
    /\ h_call_objects' = objects'
    /\ UNCHANGED <<pipeline_vars, seen_hashes, db, pc, run_no, ci, results,
                   faults, fetched, h_started, h_failed, h_indexed, h_index_arg,
                   h_stage_log, h_emitted, h_dropped>>

\* one attempt of persist fails at its k-th write, the writes before it are
\* done, and the retry wrapper calls persist again
PersistRetry ==
    /\ pc = "persist"
    /\ pj <= Len(documents)
    /\ PersistRetries(config.object_store, attempt)
    /\ faults' = (IF attempt = 1 THEN faults + 1 ELSE faults)
    /\ faults' <= MaxFaults
    /\ LET ws == ObjectStore_writes(config.object_store, documents[pj])
       IN \E k \in 1..Len(ws) : objects' = ApplyWrites(objects, ws, k - 1, versioning)
    /\ attempt' = attempt + 1
    /\ UNCHANGED <<pipeline_vars, clock, seen_hashes, db, pc, run_no, ci, documents,
                   pj, results, fetched, hist_vars>>

\* PersistRaise with the exception caught and logged inside the persist
\* loop, which goes on to the next document
PersistRaise_Swallowed ==
    /\ pc = "persist"
    /\ pj <= Len(documents)
    /\ ~PersistRetries(config.object_store, attempt)
    /\ faults' = (IF attempt = 1 THEN faults + 1 ELSE faults)
    /\ faults' <= MaxFaults
    /\ LET ws == ObjectStore_writes(config.object_store, documents[pj])
       IN \E k \in 1..Len(ws) : objects' = ApplyWrites(objects, ws, k - 1, versioning)
    /\ h_failed' = h_failed \cup {Instance(ci, pj, documents)}
    /\ pj' = pj + 1
    /\ attempt' = 1
    /\ h_call_objects' = objects'
    /\ UNCHANGED <<pipeline_vars, clock, seen_hashes, db, pc, run_no, ci, documents,
                   results, fetched, h_started, h_persisted, h_indexed, h_index_arg,
                   h_stage_log, h_emitted, h_dropped>>

\* the last attempt of persist fails at its k-th write and the exception
\* leaves persist; run() has no handler
PersistRaise ==
    /\ pc = "persist"
    /\ pj <= Len(documents)
    /\ ~PersistRetries(config.object_store, attempt)
    /\ faults' = (IF attempt = 1 THEN faults + 1 ELSE faults)
    /\ faults' <= MaxFaults
    /\ LET ws == ObjectStore_writes(config.object_store, documents[pj])
       IN \E k \in 1..Len(ws) : objects' = ApplyWrites(objects, ws, k - 1, versioning)
    /\ h_failed' = h_failed \cup {Instance(ci, pj, documents)}
    /\ pc' = "raised"
    /\ UNCHANGED <<pipeline_vars, clock, seen_hashes, db, run_no, ci, documents, pj,
                   attempt, results, fetched, h_started, h_persisted, h_indexed,
                   h_index_arg, h_stage_log, h_emitted, h_dropped, h_call_objects>>

\* lines 45-56: bulk_index(documents) commits, the result is appended
BulkIndex ==
    /\ pc = "persist"
    /\ pj > Len(documents)
    /\ db' = IndexDocuments(config.metadata_store, db, documents)
    /\ h_indexed' = h_indexed \cup Instances(ci, documents)
    /\ h_index_arg' = Append(h_index_arg, documents)
    /\ results' = Append(results, [connector_name |-> connector_config.name,
                                   processed_documents |-> Len(documents)])
    /\ ci' = ci + 1
    /\ pc' = "for"
    /\ UNCHANGED <<pipeline_vars, clock, seen_hashes, objects, run_no, documents, pj, attempt,
                   faults, fetched, h_started, h_persisted, h_failed, h_stage_log,
                   h_emitted, h_dropped, h_call_objects>>

\* line 45: bulk_index raises, its transaction is rolled back; run() has no
\* handler.  An empty batch returns before the database is touched.
BulkIndexRaise ==
    /\ pc = "persist"
    /\ pj > Len(documents)
    /\ documents /= <<>>
    /\ faults < MaxFaults
    /\ faults' = faults + 1
    /\ h_index_arg' = Append(h_index_arg, documents)
    /\ pc' = "raised"
    /\ UNCHANGED <<pipeline_vars, clock, seen_hashes, store_vars, run_no, ci, documents, pj,
                   attempt, results, fetched, h_started, h_persisted, h_failed,
                   h_indexed, h_stage_log, h_emitted, h_dropped, h_call_objects>>

Next ==
    \/ RunCall
    \/ RunReturn
    \/ SkipDisabled
    \/ CreateConnector
    \/ CreateConnectorRaise
    \/ Fetch
    \/ FetchRaise
    \/ RunProcessors
    \/ Persist
    \/ PersistRetry
    \/ PersistRaise
    \/ BulkIndex
    \/ BulkIndexRaise

\* one call of run() on a new pipeline
Spec == Init /\ [][Next]_vars

SpecPostgres == InitPostgres /\ [][Next]_vars

NextRerun == Next \/ RunAgain

\* up to MaxRuns calls of run() on one pipeline
SpecRerun == Init /\ [][NextRerun]_vars

(* ---- DeduplicationProcessor.process on one batch, from an empty seen-set ---- *)
DedupSubjects == {None, Some("a"), Some("ab")}
DedupBodies == {None, Some(""), Some("c"), Some("bc")}
DedupIds == <<"d1", "d2", "d3", "d4", "d5">>

\* the batches of at most MaxDedupBatch documents with distinct document ids
DedupBatches ==
    { [n \in DOMAIN b |->
          [document_id |-> DedupIds[n], subject |-> b[n][1], body_text |-> b[n][2],
           metadata |-> {}]] :
      b \in SeqsUpTo(DedupSubjects \X DedupBodies, MaxDedupBatch) }

\* DeduplicationProcessor() has been constructed (processors.py:14-15)
InitDedup ==
    /\ config = [connectors |-> <<>>, processing |-> Processing(TRUE, FALSE, FALSE, FALSE),
                 object_store |-> "local_fs", metadata_store |-> "sqlite"]
    /\ versioning = FALSE
    /\ processors = build_processors(config.processing)
    /\ seen_hashes = {}
    /\ objects = EmptyMap
    /\ db = EmptyDb
    /\ pc = "dedup"
    /\ run_no = 0
    /\ ci = 0
    /\ documents = <<>>
    /\ pj = 0
    /\ attempt = 0
    /\ results = <<>>
    /\ faults = 0
    /\ fetched = 0
    /\ clock = 0
    /\ h_started = {}
    /\ h_persisted = {}
    /\ h_failed = {}
    /\ h_indexed = {}
    /\ h_index_arg = <<>>
    /\ h_stage_log = <<>>
    /\ h_emitted = {}
    /\ h_dropped = {}
    /\ h_call_objects = EmptyMap
    /\ dd_input \in DedupBatches
    /\ tx = NoTx
    /\ h_call_db = EmptyDb
    /\ token = None
    /\ response = NoResponse
    /\ waited = 0
    /\ reauths = 0
    /\ folders = <<"Inbox">>
    /\ max_messages = None
    /\ folder_no = 0
    /\ url = 0
    /\ messages_fetched = 0
    /\ progress = NoJob
    /\ document_ids = <<>>
    /\ create_tags = FALSE
    /\ parallel = FALSE
    /\ workers = <<>>
    /\ ai_analysis = EmptyMap
    /\ user_review = EmptyMap
    /\ user_tags = {}
    /\ custom_prompt = ""
    /\ redaction_mode = FALSE
    /\ progress_lock = 0
    /\ search = NoSearch
    /\ stats = NoStats
    /\ s3 = NoS3
    /\ sent = 0
    /\ pool = NoPool
    /\ ai_worker = NoWorker
    /\ web = NoWeb
    /\ tenants = NoTenants
    /\ mailbox = NoMailbox

\* processors.py:17-27, one call of process(dd_input)
DedupProcess ==
    /\ pc = "dedup"
    /\ LET out == DeduplicationProcessor_process(dd_input, seen_hashes)
       IN /\ documents' = out.unique
          /\ seen_hashes' = out.seen
    /\ pc' = "dedup_done"
    /\ UNCHANGED <<pipeline_vars, clock, store_vars, run_no, ci, pj, attempt, results, faults,
                   fetched, hist_vars>>

NextDedup == DedupProcess

SpecDedup == InitDedup /\ [][NextDedup]_vars


(* ---- storage.py: bulk_index, statement by statement ---- *)
\* the documents a caller of bulk_index can hand over
IndexDocs ==
    { GraphDocument(Connector("microsoft_graph", "mbx1", TRUE), m, t) :
        m \in Messages, t \in 1..2 }

IndexBatches == SeqsUpTo(IndexDocs, MaxIndexBatch)

\* the variables bulk_index does not touch
index_frame == <<versioning, processors, seen_hashes, objects, ci, attempt, results,
                 fetched, clock, dd_input, hist_vars, graph_vars, folder_vars, job_vars,
                 ext_vars>>

\* a metadata store of either kind has been constructed, its tables are empty
InitIndex ==
    /\ InitWith(MetadataStoreTypes)
    /\ config.connectors = <<Connector("microsoft_graph", "mbx1", TRUE),
                             Connector("microsoft_graph", "mbx2", TRUE)>>
    /\ config.processing = Processing(TRUE, TRUE, TRUE, FALSE)
    /\ config.object_store = "local_fs"

\* storage.py:507-510, 628-642: bulk_index(documents) is called; an empty
\* list returns at once, else a connection is taken and its transaction sees
\* the committed tables
IndexCall ==
    /\ pc \in {"idle", "index_returned", "index_raised"}
    /\ run_no < MaxRuns
    /\ run_no' = run_no + 1
    /\ \E batch \in IndexBatches :
          /\ documents' = batch
          /\ IF batch = <<>>
             THEN pc' = "index_returned" /\ tx' = NoTx
             ELSE pc' = "index_tx" /\ tx' = db
    /\ pj' = 1
    /\ h_call_db' = db
    /\ UNCHANGED <<config, db, faults, index_frame>>

\* storage.py:511-537, 645-656: the statements of the next document succeed
IndexNextDocument ==
    /\ pc = "index_tx"
    /\ pj <= Len(documents)
    /\ tx' = IndexDocument(config.metadata_store, tx, documents[pj],
                           Len(IndexStatements(config.metadata_store)))
    /\ pj' = pj + 1
    /\ UNCHANGED <<config, db, pc, run_no, documents, faults, h_call_db, index_frame>>

\* storage.py:500, 616, 658: conn.commit() makes the transaction visible
IndexCommit ==
    /\ pc = "index_tx"
    /\ pj > Len(documents)
    /\ db' = tx
    /\ tx' = NoTx
    /\ pc' = "index_returned"
    /\ UNCHANGED <<config, run_no, documents, pj, faults, h_call_db, index_frame>>

\* a statement of the next document raises after n statements of that
\* document were executed.  storage.py:661-664, 617-620: rollback and raise;
\* storage.py:501-502: the connection is closed without commit
IndexRaise ==
    /\ pc = "index_tx"
    /\ pj <= Len(documents)
    /\ faults < MaxFaults
    /\ faults' = faults + 1
    /\ \E n \in 0..(Len(IndexStatements(config.metadata_store)) - 1) :
          db' = Rollback(db, IndexDocument(config.metadata_store, tx, documents[pj], n))
    /\ tx' = NoTx
    /\ pc' = "index_raised"
    /\ UNCHANGED <<config, run_no, documents, pj, h_call_db, index_frame>>

NextIndex ==
    \/ IndexCall
    \/ IndexNextDocument
    \/ IndexCommit
    \/ IndexRaise

\* up to MaxRuns calls of bulk_index on one metadata store
SpecIndex == InitIndex /\ [][NextIndex]_vars

\* the documents of IndexDocs, and message m1 collected again after its
\* attachment was removed
ReindexDocs ==
    IndexDocs \cup
    { [GraphDocument(Connector("microsoft_graph", "mbx1", TRUE), m, 2)
          EXCEPT !.attachments = <<>>] : m \in {m \in Messages : m.document_id = "m1"} }

ReindexBatches == SeqsUpTo(ReindexDocs, MaxIndexBatch)

\* storage.py:628-642: bulk_index(documents) is called with documents that
\* may have lost their attachments since they were last indexed
ReindexCall ==
    /\ pc \in {"idle", "index_returned", "index_raised"}
    /\ run_no < MaxRuns
    /\ run_no' = run_no + 1
    /\ \E batch \in ReindexBatches :
          /\ documents' = batch
          /\ IF batch = <<>>
             THEN pc' = "index_returned" /\ tx' = NoTx
             ELSE pc' = "index_tx" /\ tx' = db
    /\ pj' = 1
    /\ h_call_db' = db
    /\ UNCHANGED <<config, db, faults, index_frame>>

NextReindex ==
    \/ ReindexCall
    \/ IndexNextDocument
    \/ IndexCommit
    \/ IndexRaise

\* up to MaxRuns calls of bulk_index, documents indexed again
SpecReindex == InitIndex /\ [][NextReindex]_vars


(* ---- one connector's fetch() ---- *)
\* the connector classes whose fetch() returns documents
FetchingConnectors == {"mock_email", "microsoft_graph", "enron"}

\* one connector of a class of FetchingConnectors has been constructed
InitFetch ==
    InitConfig({ [connectors |-> <<Connector(t, name, TRUE)>>,
                  processing |-> Processing(TRUE, TRUE, TRUE, FALSE),
                  object_store |-> "local_fs", metadata_store |-> "sqlite"] :
                 t \in FetchingConnectors, name \in {"src1", "src2"} })

\* a MicrosoftGraphConnector has been constructed
InitGraph ==
    InitConfig({ [connectors |-> <<Connector("microsoft_graph", name, TRUE)>>,
                  processing |-> Processing(TRUE, TRUE, TRUE, FALSE),
                  object_store |-> "local_fs", metadata_store |-> "sqlite"] :
                 name \in {"src1", "src2"} })

\* documents = list(connector.fetch()) for what the source holds
ConnectorFetch ==
    /\ pc = "idle"
    /\ LET cfg == config.connectors[1]
       IN \/ /\ cfg.type = "mock_email"
             /\ \E batch_size \in 0..MaxFetch :
                   documents' = MockEmailConnector_fetch(cfg, batch_size)
             /\ clock' = clock
          \/ /\ cfg.type = "microsoft_graph"
             /\ \E messages \in SeqsUpTo(Messages, MaxFetch) :
                   /\ documents' = MicrosoftGraphConnector_fetch(cfg, messages, clock)
                   /\ clock' = clock + Len(messages)
          \/ /\ cfg.type = "enron"
             /\ \E files \in SeqsUpTo(EnronFiles, MaxFetch) :
                   documents' = EnronConnector_fetch(cfg, files)
             /\ clock' = clock
    /\ pc' = "fetched"
    /\ UNCHANGED <<pipeline_vars, seen_hashes, store_vars, run_no, ci, pj, attempt,
                   results, faults, fetched, hist_vars>>

NextFetch == ConnectorFetch

SpecFetch == InitFetch /\ [][NextFetch]_vars


(* ---- FileAnalysisProcessor.process on one batch ---- *)
\* attachments as a source can declare them: without a checksum, with the
\* SHA-256 of the payload, with another value
FileAttachments ==
    { [filename |-> "f.txt", payload |-> p, checksum_sha256 |-> c] :
        p \in {"x", ""}, c \in {None, Some(sha256("x")), Some(sha256(""))} }
    \cup { [filename |-> f, payload |-> EncryptedZip, checksum_sha256 |-> None] :
             f \in {"f.zip", "f.docx"} }
    \cup { [filename |-> "f.docx", payload |-> IntactDocx, checksum_sha256 |-> None] }

FileDocs ==
    { [attachments |-> atts] : atts \in SeqsUpTo(FileAttachments, 1) }

FileBatches ==
    { [n \in DOMAIN b |-> [document_id |-> DedupIds[n], attachments |-> b[n].attachments]] :
      b \in SeqsUpTo(FileDocs, MaxFileBatch) }

\* processor.process(documents) of a FileAnalysisProcessor on a batch
FileAnalysisProcess ==
    /\ pc = "idle"
    /\ \E batch \in FileBatches :
          /\ dd_input' = batch
          /\ documents' = FileAnalysisProcessor_process(batch)
          /\ stats' = UpdateStats(stats, batch)
    /\ pc' = "analysed"
    /\ UNCHANGED <<config, versioning, processors, index_vars, graph_vars, folder_vars,
                   job_vars, search, s3, pool, ai_worker, web, tenants, mailbox, clock,
                   seen_hashes,
                   store_vars, run_no, ci, pj, attempt, results, faults, fetched,
                   hist_vars>>

NextFileAnalysis == FileAnalysisProcess

SpecFileAnalysis == Init /\ [][NextFileAnalysis]_vars


(* ---- microsoft_graph.py: _make_graph_request ---- *)
\* the variables a Graph API request does not touch
graph_frame == <<config, versioning, processors, dd_input, index_vars, folder_vars,
                 job_vars, ext_vars, seen_hashes,
                 store_vars, ci, documents, pj, results, faults, fetched, clock,
                 hist_vars>>

\* requests.request(...): the answer of the server, or a RequestException
GraphSend(next_pc) ==
    \E r \in Responses :
        /\ response' = r
        /\ waited' = 0
        /\ sent' = sent + 1
        /\ pc' = (IF r.status = "exception" THEN "graph_failed" ELSE next_pc)

\* _get_access_token (lines 101-124) when no valid token is cached: the token
\* is acquired and cached, or RuntimeError leaves _make_graph_request (it is
\* not an exception tenacity retries)
GraphAcquireToken(next_pc) ==
    \/ token' = Some("token") /\ pc' = next_pc
    \/ token' = None /\ pc' = "graph_raised"

\* a call of _make_graph_request; the first attempt begins
GraphCall ==
    /\ pc \in {"idle", "graph_returned", "graph_raised"}
    /\ run_no < MaxRuns
    /\ run_no' = run_no + 1
    /\ attempt' = 1
    /\ reauths' = 0
    /\ response' = NoResponse
    /\ waited' = 0
    /\ sent' = 0
    /\ pc' = "graph_token"
    /\ UNCHANGED <<token, graph_frame>>

\* line 148: headers["Authorization"] = f"Bearer {self._get_access_token()}"
GraphGetToken ==
    /\ pc = "graph_token"
    /\ IF token /= None
       THEN token' = token /\ pc' = "graph_send"
       ELSE GraphAcquireToken("graph_send")
    /\ UNCHANGED <<run_no, attempt, reauths, response, waited, sent, graph_frame>>

\* line 153
GraphRequest ==
    /\ pc = "graph_send"
    /\ GraphSend("graph_429")
    /\ UNCHANGED <<run_no, attempt, reauths, token, graph_frame>>

\* lines 156-159: on 429, time.sleep(retry_after)
GraphRateLimited ==
    /\ pc = "graph_429"
    /\ IF response.status = "429"
       THEN waited' = waited + retry_after(response) /\ pc' = "graph_resend_429"
       ELSE waited' = waited /\ pc' = "graph_401"
    /\ UNCHANGED <<run_no, attempt, reauths, token, response, sent, graph_frame>>

\* line 161: the request is sent again
GraphResendAfter429 ==
    /\ pc = "graph_resend_429"
    /\ GraphSend("graph_401")
    /\ UNCHANGED <<run_no, attempt, reauths, token, graph_frame>>

\* lines 164-167: on 401 the cached token is dropped and a new one acquired
GraphUnauthorized ==
    /\ pc = "graph_401"
    /\ IF response.status = "401"
       THEN GraphAcquireToken("graph_resend_401") /\ reauths' = reauths + 1
       ELSE token' = token /\ reauths' = reauths /\ pc' = "graph_status"
    /\ UNCHANGED <<run_no, attempt, response, waited, sent, graph_frame>>

\* line 168: the request is sent again
GraphResendAfter401 ==
    /\ pc = "graph_resend_401"
    /\ GraphSend("graph_status")
    /\ UNCHANGED <<run_no, attempt, reauths, token, graph_frame>>

\* lines 170-171: raise_for_status(), else return response.json()
GraphStatus ==
    /\ pc = "graph_status"
    /\ pc' = (IF response.status = "200" THEN "graph_returned" ELSE "graph_failed")
    /\ UNCHANGED <<run_no, attempt, reauths, token, response, waited, sent, graph_frame>>

\* GraphTenacity that calls the function again after every failed attempt
GraphTenacity_Forever ==
    /\ pc = "graph_failed"
    /\ waited' = waited + wait_exponential(attempt)
    /\ attempt' = attempt + 1
    /\ pc' = "graph_token"
    /\ UNCHANGED <<run_no, reauths, token, response, sent, graph_frame>>

\* lines 126-130: a RequestException (HTTPError is one) left the attempt;
\* tenacity sleeps and calls the function again, up to GRAPH_ATTEMPTS attempts
GraphTenacity ==
    /\ pc = "graph_failed"
    /\ IF attempt < GRAPH_ATTEMPTS
       THEN /\ waited' = waited + wait_exponential(attempt)
            /\ attempt' = attempt + 1
            /\ pc' = "graph_token"
       ELSE /\ waited' = waited
            /\ attempt' = attempt
            /\ pc' = "graph_raised"
    /\ UNCHANGED <<run_no, reauths, token, response, sent, graph_frame>>

NextGraph ==
    \/ GraphCall
    \/ GraphGetToken
    \/ GraphRequest
    \/ GraphRateLimited
    \/ GraphResendAfter429
    \/ GraphUnauthorized
    \/ GraphResendAfter401
    \/ GraphStatus
    \/ GraphTenacity

\* up to MaxRuns calls of _make_graph_request on one connector
SpecGraph == InitGraph /\ [][NextGraph]_vars

(* ---- microsoft_graph.py: fetch over folders and pages ---- *)
FolderNames == <<"Inbox", "Sent Items", "Archive", "Drafts">>

\* values of the max_messages parameter (line 72): absent, 0, a limit
MaxMessagesValues == {None} \cup {Some(n) : n \in 0..2}

\* Python truth of self._max_messages (lines 231, 243)
LimitSet(m) == m /= None /\ m[1] /= 0

LimitReached(m, n) == LimitSet(m) /\ n >= m[1]

\* a message whose receivedDateTime datetime.fromisoformat rejects (line 331):
\* _convert_message_to_document raises and fetch skips the message
BadMessage == [document_id |-> "m3", receivedDateTime |-> "unparsable"]

PageMessage == CHOOSE m \in Messages : m.document_id = "m2"

\* the pages the Graph API can answer with
Pages == SeqsUpTo({PageMessage, BadMessage}, MaxPageSize)

\* lines 239-244: the messages of a page _fetch_messages_from_folder yields
\* when n messages of the folder were yielded before
RECURSIVE YieldPage(_, _, _)
YieldPage(messages, m, n) ==
    IF messages = <<>>
    THEN <<>>
    ELSE IF LimitReached(m, n + 1)
         THEN <<Head(messages)>>
         ELSE <<Head(messages)>> \o YieldPage(Tail(messages), m, n + 1)

\* lines 412-428: the documents of the yielded messages, the messages
\* whose conversion raises left out
RECURSIVE ConvertMessages(_, _, _)
ConvertMessages(cfg, messages, now) ==
    IF messages = <<>>
    THEN <<>>
    ELSE IF Head(messages) = BadMessage
         THEN ConvertMessages(cfg, Tail(messages), now)
         ELSE <<GraphDocument(cfg, Head(messages), now + 1)>>
              \o ConvertMessages(cfg, Tail(messages), now + 1)

fetch_frame == <<config, versioning, processors, dd_input, index_vars, graph_vars, job_vars,
                 ext_vars,
                 seen_hashes, store_vars, run_no, ci, pj, attempt, results, faults,
                 fetched, hist_vars>>

\* a connector is constructed (lines 71-74) and list(connector.fetch()) begins
GraphFetchCall ==
    /\ pc = "idle"
    /\ \E n \in 0..MaxFolders : folders' = SubSeq(FolderNames, 1, n)
    /\ max_messages' \in MaxMessagesValues
    /\ folder_no' = 0
    /\ documents' = <<>>
    /\ pc' = "fetch_folder"
    /\ UNCHANGED <<url, messages_fetched, clock, fetch_frame>>

\* lines 402-409: the next folder; a folder _get_folder_id does not find is
\* skipped; lines 207-229 for one it finds
GraphFetchFolder ==
    /\ pc = "fetch_folder"
    /\ IF folder_no < Len(folders)
       THEN /\ folder_no' = folder_no + 1
            /\ \E found \in BOOLEAN :
                  IF found
                  THEN url' = 1 /\ messages_fetched' = 0 /\ pc' = "fetch_page"
                  ELSE UNCHANGED <<url, messages_fetched>> /\ pc' = "fetch_folder"
       ELSE /\ pc' = "fetch_returned"
            /\ UNCHANGED <<folder_no, url, messages_fetched>>
    /\ UNCHANGED <<folders, max_messages, documents, clock, fetch_frame>>

\* lines 229-249: one turn of while url, the yielded messages converted by
\* fetch (lines 412-428)
GraphFetchPage ==
    /\ pc = "fetch_page"
    /\ IF url = 0 \/ LimitReached(max_messages, messages_fetched)
       THEN /\ pc' = "fetch_folder"
            /\ UNCHANGED <<url, messages_fetched, documents, clock>>
       ELSE \E messages \in Pages, next_link \in BOOLEAN :
               LET yielded == YieldPage(messages, max_messages, messages_fetched)
                   converted == ConvertMessages(config.connectors[1], yielded, clock)
               IN /\ next_link => url < MaxPages
                  /\ messages_fetched' = messages_fetched + Len(yielded)
                  /\ documents' = documents \o converted
                  /\ clock' = clock + Len(converted)
                  /\ url' = (IF next_link THEN url + 1 ELSE 0)
                  /\ pc' = "fetch_page"
    /\ UNCHANGED <<folders, max_messages, folder_no, fetch_frame>>

\* lines 235, 434-436: _make_graph_request raises and fetch raises with it
GraphFetchRaise ==
    /\ pc = "fetch_page"
    /\ url /= 0
    /\ ~LimitReached(max_messages, messages_fetched)
    /\ pc' = "fetch_raised"
    /\ UNCHANGED <<folder_vars, documents, clock, fetch_frame>>

NextGraphFetch ==
    \/ GraphFetchCall
    \/ GraphFetchFolder
    \/ GraphFetchPage
    \/ GraphFetchRaise

SpecGraphFetch == InitGraph /\ [][NextGraphFetch]_vars


(* ---- web/app.py, web/app_parallel.py: an enrichment job ---- *)
job_frame == <<config, versioning, processors, dd_input, index_vars, graph_vars,
               folder_vars, ext_vars, seen_hashes, store_vars, run_no, ci, documents, pj,
               attempt, results, faults, fetched, clock, hist_vars>>

InitJob ==
    InitConfig({ [connectors |-> <<Connector("mock_email", "src1", TRUE)>>,
                  processing |-> Processing(TRUE, TRUE, TRUE, FALSE),
                  object_store |-> "local_fs", metadata_store |-> "postgres"] })

Worker(at, resp) == [pc |-> at, response |-> resp]

\* the analysis of a document has ended: stored, not found, or an exception
Finished(w) == workers[w].pc \in {"done", "skipped", "failed"}

WorkerAt(w, at) == workers' = [workers EXCEPT ![w].pc = at]

\* column subject of the row of documents
Subject(doc_id) == "subject of " \o doc_id

\* app.py:591-633: api_custom_ai_analysis makes the progress entry of a job
\* of one or more document ids and starts the job; the job of app.py has
\* neither tags nor redaction
JobStart ==
    /\ pc = "idle"
    /\ \E ids \in SeqsUpTo(JobIds, MaxJobDocs) :
          /\ ids /= <<>>
          /\ document_ids' = ids
          /\ progress' = [NoJob EXCEPT !.total = Len(ids), !.started = TRUE]
    /\ parallel' \in BOOLEAN
    /\ create_tags' \in (IF parallel' THEN BOOLEAN ELSE {FALSE})
    /\ redaction_mode' \in (IF parallel' THEN BOOLEAN ELSE {FALSE})
    /\ custom_prompt' \in Prompts
    /\ pc' = "job_started"
    /\ UNCHANGED <<workers, progress_lock, job_tables, job_frame>>

\* app_parallel.py:26-40, 276-286 and app.py:680-697: without an API key, or
\* on an exception before the first document, the job is marked completed;
\* otherwise every document id is submitted (parallel) or the loop begins
JobSetup ==
    /\ pc = "job_started"
    /\ \/ /\ progress' = [progress EXCEPT !.completed = TRUE]
          /\ pc' = "job_returned"
          /\ UNCHANGED workers
       \/ /\ workers' = [w \in DOMAIN document_ids |-> Worker("queued", NoAiResponse)]
          /\ pc' = "job_running"
          /\ UNCHANGED progress
    /\ UNCHANGED <<progress_lock, job_inputs, job_tables, job_frame>>

\* JobComplete that does not wait for the workers
JobComplete_NoWait ==
    /\ pc = "job_running"
    /\ parallel
    /\ progress' = [progress EXCEPT !.completed = TRUE]
    /\ pc' = "job_returned"
    /\ UNCHANGED <<workers, progress_lock, job_inputs, job_tables, job_frame>>

\* app_parallel.py:284-299: the with block of the ThreadPoolExecutor is left
\* when every future is done, then completed is set (also by the handler of
\* line 309 when the block was left by an exception)
JobComplete ==
    /\ pc = "job_running"
    /\ parallel
    /\ \A w \in DOMAIN workers : Finished(w)
    /\ progress' = [progress EXCEPT !.completed = TRUE]
    /\ pc' = "job_returned"
    /\ UNCHANGED <<workers, progress_lock, job_inputs, job_tables, job_frame>>

\* a step of the worker of document w in a parallel job
WorkerStep(w, at) ==
    /\ pc = "job_running"
    /\ pc' = pc
    /\ parallel
    /\ workers[w].pc = at

\* where a worker waits for progress_lock, and where it is once it holds it
LockWaits == {"lock_document", "lock_subject", "lock_redaction", "lock_result"}

Locked(at) ==
    CASE at = "lock_document" -> "in_document"
      [] at = "lock_subject" -> "in_subject"
      [] at = "lock_redaction" -> "in_redaction"
      [] at = "lock_result" -> "in_result"

\* with progress_lock: the lock is taken when it is free
WorkerAcquire(w) ==
    /\ \E at \in LockWaits : WorkerStep(w, at)
    /\ progress_lock = 0
    /\ progress_lock' = w
    /\ WorkerAt(w, Locked(workers[w].pc))
    /\ UNCHANGED <<progress, job_inputs, job_tables, job_frame>>

\* app_parallel.py:44-54: the connection of the worker is opened, or an
\* exception is caught (lines 274-279)
WorkerConnect(w) ==
    /\ WorkerStep(w, "queued")
    /\ \/ WorkerAt(w, "lock_document")
       \/ WorkerAt(w, "failed")
    /\ UNCHANGED <<progress, progress_lock, job_inputs, job_tables, job_frame>>

\* app_parallel.py:57-70: current_document is set under the lock, then the
\* document is selected; it is not found (return None), or an exception is
\* caught
WorkerFetch(w) ==
    /\ WorkerStep(w, "in_document")
    /\ progress' = [progress EXCEPT !.current_document = Some(document_ids[w])]
    /\ progress_lock' = 0
    /\ \/ WorkerAt(w, IF document_ids[w] \in StoredIds THEN "lock_subject" ELSE "skipped")
       \/ WorkerAt(w, "failed")
    /\ UNCHANGED <<job_inputs, job_tables, job_frame>>

\* app_parallel.py:73-74: current_subject is set under the lock
WorkerSubject(w) ==
    /\ WorkerStep(w, "in_subject")
    /\ progress' = [progress EXCEPT !.current_subject = Some(Subject(document_ids[w]))]
    /\ progress_lock' = 0
    /\ WorkerAt(w, "found")
    /\ UNCHANGED <<job_inputs, job_tables, job_frame>>

\* app_parallel.py:76-162: the AI is asked, its answer parsed, ai_analysis
\* and user_review are upserted and the transaction committed; or an
\* exception is caught and the connection closed without a commit
WorkerAnalyse(w) ==
    /\ WorkerStep(w, "found")
    /\ \/ \E raw \in LlmResponses :
             LET r == ParseResponse(raw, custom_prompt)
             IN /\ workers' = [workers EXCEPT ![w] = Worker("saved", r)]
                /\ ai_analysis' = Upsert(ai_analysis, document_ids[w], r)
                /\ user_review' = AppendReviewNotes(user_review, document_ids[w],
                                                    CustomAnalysisNote(raw))
       \/ /\ WorkerAt(w, "failed")
          /\ UNCHANGED <<ai_analysis, user_review>>
    /\ UNCHANGED <<progress, progress_lock, job_inputs, user_tags, job_frame>>

\* app_parallel.py:164-195: with create_tags the tags are inserted and
\* committed in a second transaction; a failing INSERT is caught (line 192)
\* and leaves the transaction aborted, so that the commit stores no tag; an
\* exception of the commit is caught by lines 274-279
WorkerTags(w) ==
    /\ WorkerStep(w, "saved")
    /\ IF create_tags
       THEN \/ /\ user_tags' = user_tags \cup
                      { <<document_ids[w], t>> : t \in tags_to_create(workers[w].response) }
               /\ WorkerAt(w, "tagged")
            \/ /\ user_tags' = user_tags
               /\ WorkerAt(w, "tagged")
            \/ /\ user_tags' = user_tags
               /\ WorkerAt(w, "failed")
       ELSE /\ user_tags' = user_tags
            /\ WorkerAt(w, "tagged")
    /\ UNCHANGED <<progress, progress_lock, job_inputs, ai_analysis, user_review, job_frame>>

\* app_parallel.py:197-238: with redaction_mode the AI is asked for the
\* redacted text; an exception is caught (lines 274-279)
WorkerRedact(w) ==
    /\ WorkerStep(w, "tagged")
    /\ IF redaction_mode
       THEN \/ WorkerAt(w, "lock_redaction")
            \/ WorkerAt(w, "failed")
       ELSE WorkerAt(w, "lock_result")
    /\ UNCHANGED <<progress, progress_lock, job_inputs, job_tables, job_frame>>

\* app_parallel.py:240-249: the redaction is appended under the lock
WorkerRedaction(w) ==
    /\ WorkerStep(w, "in_redaction")
    /\ progress' = [progress EXCEPT !.redactions = Append(@, document_ids[w])]
    /\ progress_lock' = 0
    /\ WorkerAt(w, "lock_result")
    /\ UNCHANGED <<job_inputs, job_tables, job_frame>>

\* app_parallel.py:251-272: the result is appended and processed incremented
\* under the lock
WorkerFinish(w) ==
    /\ WorkerStep(w, "in_result")
    /\ progress' = [progress EXCEPT !.results = Append(@, document_ids[w]),
                                    !.processed = @ + 1]
    /\ progress_lock' = 0
    /\ WorkerAt(w, "done")
    /\ UNCHANGED <<job_inputs, job_tables, job_frame>>

\* app.py:699-760: one turn of for doc_id in document_ids: the document is
\* not found (continue), or its notes are stored and processed incremented,
\* or an exception is caught (continue)
SequentialDocument(w) ==
    /\ pc = "job_running"
    /\ pc' = pc
    /\ ~parallel
    /\ workers[w].pc = "queued"
    /\ \A v \in 1..(w - 1) : Finished(v)
    /\ \/ /\ document_ids[w] \notin StoredIds
          /\ WorkerAt(w, "skipped")
          /\ UNCHANGED <<progress, user_review>>
       \/ /\ document_ids[w] \in StoredIds
          /\ \E raw \in LlmResponses :
                user_review' = AppendReviewNotes(user_review, document_ids[w],
                                                 CustomAnalysisNote(raw))
          /\ WorkerAt(w, "done")
          /\ progress' = [progress EXCEPT !.processed = @ + 1]
       \/ /\ WorkerAt(w, "failed")
          /\ UNCHANGED <<progress, user_review>>
    /\ UNCHANGED <<progress_lock, job_inputs, ai_analysis, user_tags, job_frame>>

\* app.py:760-774: after the loop completed is set, by line 764 or by the
\* handler of line 774
SequentialComplete ==
    /\ pc = "job_running"
    /\ ~parallel
    /\ \A w \in DOMAIN workers : Finished(w)
    /\ progress' = [progress EXCEPT !.completed = TRUE]
    /\ pc' = "job_returned"
    /\ UNCHANGED <<workers, progress_lock, job_inputs, job_tables, job_frame>>

\* the steps of a job that was started
JobRun ==
    \/ JobSetup
    \/ JobComplete
    \/ SequentialComplete
    \/ \E w \in DOMAIN workers :
          \/ WorkerAcquire(w)
          \/ WorkerConnect(w)
          \/ WorkerFetch(w)
          \/ WorkerSubject(w)
          \/ WorkerAnalyse(w)
          \/ WorkerTags(w)
          \/ WorkerRedact(w)
          \/ WorkerRedaction(w)
          \/ WorkerFinish(w)
          \/ SequentialDocument(w)

NextJob == JobStart \/ JobRun

\* app_parallel.py:76-162 with the answers of ScoreResponses
ScoreAnalyse(w) ==
    /\ WorkerStep(w, "found")
    /\ \/ \E raw \in ScoreResponses :
             LET r == ParseResponse(raw, custom_prompt)
             IN /\ workers' = [workers EXCEPT ![w] = Worker("saved", r)]
                /\ ai_analysis' = Upsert(ai_analysis, document_ids[w], r)
                /\ user_review' = AppendReviewNotes(user_review, document_ids[w],
                                                    CustomAnalysisNote(raw))
       \/ /\ WorkerAt(w, "failed")
          /\ UNCHANGED <<ai_analysis, user_review>>
    /\ UNCHANGED <<progress, progress_lock, job_inputs, user_tags, job_frame>>

\* the steps of a parallel job whose answers are those of ScoreResponses
ScoreRun ==
    \/ JobSetup
    \/ JobComplete
    \/ \E w \in DOMAIN workers :
          \/ WorkerAcquire(w)
          \/ WorkerConnect(w)
          \/ WorkerFetch(w)
          \/ WorkerSubject(w)
          \/ ScoreAnalyse(w)
          \/ WorkerTags(w)
          \/ WorkerRedact(w)
          \/ WorkerRedaction(w)
          \/ WorkerFinish(w)

NextScores == JobStart \/ ScoreRun

SpecScores == InitJob /\ [][NextScores]_vars

SpecJob == InitJob /\ [][NextJob]_vars

\* the threads of a job are scheduled and every call they make returns or
\* raises
SpecJobFair == SpecJob /\ WF_vars(JobRun)

(* ---- web/app.py: api_search ---- *)
search_frame == <<config, versioning, processors, dd_input, index_vars, graph_vars,
                  folder_vars, job_vars, stats, s3, pool, ai_worker, web, tenants, mailbox,
                  seen_hashes, store_vars,
                  ci, documents,
                  pj,
                  attempt, results, faults, fetched, clock, hist_vars>>

\* app.py:67-79: a search request arrives and the connection is opened, or
\* get_db_connection raises and the request is answered with an error
SearchCall ==
    /\ pc \in {"idle", "search_returned"}
    /\ run_no < MaxRuns
    /\ run_no' = run_no + 1
    /\ \E q \in {"", "quarterly earnings"}, c \in {"", "alice"}, key \in BOOLEAN :
          /\ search' = [NoSearch EXCEPT !.query = q, !.custodian = c, !.api_key = key]
          /\ \/ pc' = (IF q /= "" THEN "search_count" ELSE "search_query")
             \/ pc' = "search_returned"
    /\ UNCHANGED search_frame

\* app.py:109-139: the documents with an embedding are counted; when the
\* query fails the transaction is rolled back
SearchCount ==
    /\ pc = "search_count"
    /\ \/ /\ search' = [search EXCEPT !.count_failed = TRUE, !.tx_error = rollback(TRUE),
                                      !.use_semantic = FALSE, !.embeddings_count = 0]
          /\ pc' = "search_query"
       \/ \E n \in 0..2 :
             /\ search' = [search EXCEPT !.embeddings_count = n, !.use_semantic = n > 0]
             /\ pc' = (IF n > 0 THEN "search_embed" ELSE "search_query")
    /\ UNCHANGED <<run_no, search_frame>>

\* app.py:116-134: with an API key the embedding of the query is asked for
SearchEmbed ==
    /\ pc = "search_embed"
    /\ IF search.api_key
       THEN \/ search' = [search EXCEPT !.query_embedding = Some("embedding")]
            \/ search' = [search EXCEPT !.embed_failed = TRUE, !.use_semantic = FALSE]
       ELSE search' = search
    /\ pc' = "search_query"
    /\ UNCHANGED <<run_no, search_frame>>

\* app.py:141-250: the main query is built and executed; in a transaction
\* that is in its error state it fails and the request is answered with an error
SearchQuery ==
    /\ pc = "search_query"
    /\ search' = [search EXCEPT !.relevance = RelevanceColumn(search),
                                !.params = SearchParams(search),
                                !.executed = TRUE,
                                !.success = ~search.tx_error]
    /\ pc' = "search_returned"
    /\ UNCHANGED <<run_no, search_frame>>

NextSearch ==
    \/ SearchCall
    \/ SearchCount
    \/ SearchEmbed
    \/ SearchQuery

SpecSearch == InitJob /\ [][NextSearch]_vars

(* ---- storage.py: S3ObjectStore ---- *)
s3_frame == <<config, versioning, processors, dd_input, index_vars, graph_vars,
             folder_vars, job_vars, search, stats, pool, ai_worker, web, tenants, mailbox,
             seen_hashes,
             store_vars, pc,
             run_no,
             ci, documents, pj, attempt, results, faults, fetched, clock, hist_vars>>

\* the bucket has all that first-use provisioning asks for
Provisioned(bucket, kms_key_id) ==
    /\ bucket.exists
    /\ bucket.versioning
    /\ bucket.encryption = Some(SSEAlgorithm(kms_key_id))
    /\ bucket.public_access_block

\* lines 65-99: __init__ reads the parameters and creates the client
S3Init ==
    /\ s3.pc = "idle"
    /\ \E k \in {None, Some("key")}, v \in BOOLEAN, b \in Buckets :
          s3' = [s3 EXCEPT !.pc = "head_bucket", !.kms_key_id = k,
                           !.enable_versioning = v, !.bucket = b]
    /\ UNCHANGED s3_frame

\* lines 120-130: head_bucket returns, or answers 404, or another ClientError
\* leaves __init__
S3HeadBucket ==
    /\ s3.pc = "head_bucket"
    /\ \/ /\ s3.bucket.exists
          /\ s3' = [s3 EXCEPT !.pc = "versioning"]
       \/ /\ ~s3.bucket.exists
          /\ s3' = [s3 EXCEPT !.pc = "create_bucket"]
       \/ s3' = [s3 EXCEPT !.pc = "init_raised"]
    /\ UNCHANGED s3_frame

\* lines 138-150, 158-160: create_bucket returns, or its ClientError is
\* raised again
S3CreateBucket ==
    /\ s3.pc = "create_bucket"
    /\ \/ s3' = [s3 EXCEPT !.pc = "put_bucket_encryption", !.bucket.exists = TRUE]
       \/ s3' = [s3 EXCEPT !.pc = "init_raised"]
    /\ UNCHANGED s3_frame

\* lines 162-192: put_bucket_encryption returns, or its ClientError is logged
\* as a warning
S3EnableBucketEncryption ==
    /\ s3.pc = "put_bucket_encryption"
    /\ \/ s3' = [s3 EXCEPT !.pc = "put_public_access_block",
                           !.bucket.encryption = Some(SSEAlgorithm(s3.kms_key_id))]
       \/ s3' = [s3 EXCEPT !.pc = "put_public_access_block"]
    /\ UNCHANGED s3_frame

\* lines 194-208: put_public_access_block returns, or its ClientError is
\* logged as a warning
S3BlockPublicAccess ==
    /\ s3.pc = "put_public_access_block"
    /\ \/ s3' = [s3 EXCEPT !.pc = "versioning", !.bucket.public_access_block = TRUE]
       \/ s3' = [s3 EXCEPT !.pc = "versioning"]
    /\ UNCHANGED s3_frame

\* lines 132-134, 210-219: put_bucket_versioning when enable_versioning is
\* set; its ClientError is logged as a warning; __init__ returns
S3EnableBucketVersioning ==
    /\ s3.pc = "versioning"
    /\ \/ /\ s3.enable_versioning
          /\ s3' = [s3 EXCEPT !.pc = "ready", !.bucket.versioning = TRUE]
       \/ s3' = [s3 EXCEPT !.pc = "ready"]
    /\ UNCHANGED s3_frame

\* persist(document) is called through the retry wrapper; contents are the
\* lengths of the objects of the document in the order of lines 243-292
S3PersistCall ==
    /\ s3.pc = "ready"
    /\ \E cs \in SeqsUpTo(ContentLengths, MaxObjects) :
          /\ Len(cs) >= 2
          /\ s3' = [s3 EXCEPT !.pc = "upload", !.contents = cs, !.i = 1, !.attempt = 1]
    /\ UNCHANGED s3_frame

\* lines 221-225, 314-320: an attempt of persist raised; the wrapper sleeps
\* and calls persist again, or raises the error when the attempts are used up
AttemptFailed(st) ==
    IF stop_after_attempt(st.attempt)
    THEN [st EXCEPT !.pc = "persist_raised"]
    ELSE [st EXCEPT !.pc = "upload", !.i = 1, !.attempt = @ + 1,
                    !.slept = Append(@, persist_wait(st.attempt))]

\* lines 322-361, 372-385: _upload_object of the next object: put_object for
\* a small one, create_multipart_upload for a large one; either may raise
S3UploadObject ==
    /\ s3.pc = "upload"
    /\ s3.i <= Len(s3.contents)
    /\ \/ /\ ~IsMultipart(s3.contents[s3.i])
          /\ s3' = [s3 EXCEPT !.i = @ + 1,
                              !.put_unprovisioned =
                                  @ \/ ~Provisioned(s3.bucket, s3.kms_key_id)]
       \/ /\ IsMultipart(s3.contents[s3.i])
          /\ s3' = [s3 EXCEPT !.pc = "upload_part", !.part_number = 1,
                              !.uploads = Append(@, "initiated")]
       \/ s3' = AttemptFailed(s3)
    /\ UNCHANGED s3_frame

\* lines 393-407: upload_part of the next chunk returns or raises
S3UploadPart ==
    /\ s3.pc = "upload_part"
    /\ s3.part_number <= Parts(s3.contents[s3.i])
    /\ \/ s3' = [s3 EXCEPT !.part_number = @ + 1]
       \/ s3' = [s3 EXCEPT !.pc = "abort"]
    /\ UNCHANGED s3_frame

\* lines 409-415: complete_multipart_upload returns or raises
S3CompleteMultipartUpload ==
    /\ s3.pc = "upload_part"
    /\ s3.part_number > Parts(s3.contents[s3.i])
    /\ \/ s3' = [s3 EXCEPT !.pc = "upload", !.i = @ + 1,
                           !.uploads[Len(s3.uploads)] = "completed",
                           !.put_unprovisioned =
                               @ \/ ~Provisioned(s3.bucket, s3.kms_key_id)]
       \/ s3' = [s3 EXCEPT !.pc = "abort"]
    /\ UNCHANGED s3_frame

\* lines 424-430: abort_multipart_upload for upload_id returns and the error
\* of the try block is raised again, or abort_multipart_upload itself raises
S3AbortMultipartUpload ==
    /\ s3.pc = "abort"
    /\ \/ s3' = AttemptFailed([s3 EXCEPT !.aborts = Append(@, Len(s3.uploads)),
                                          !.uploads[Len(s3.uploads)] = "aborted"])
       \/ s3' = AttemptFailed([s3 EXCEPT !.aborts = Append(@, Len(s3.uploads))])
    /\ UNCHANGED s3_frame

\* lines 294-312: every object is uploaded, the custody event is appended
\* and persist returns
S3PersistReturn ==
    /\ s3.pc = "upload"
    /\ s3.i > Len(s3.contents)
    /\ s3' = [s3 EXCEPT !.pc = "persist_returned",
                        !.chain_of_custody = Append(@, "persisted_to_s3")]
    /\ UNCHANGED s3_frame

NextS3 ==
    \/ S3Init
    \/ S3HeadBucket
    \/ S3CreateBucket
    \/ S3EnableBucketEncryption
    \/ S3BlockPublicAccess
    \/ S3EnableBucketVersioning
    \/ S3PersistCall
    \/ S3UploadObject
    \/ S3UploadPart
    \/ S3CompleteMultipartUpload
    \/ S3AbortMultipartUpload
    \/ S3PersistReturn

\* an S3ObjectStore is constructed and persist is called once
SpecS3 == InitJob /\ [][NextS3]_vars

(* ---- scripts/ai_worker_parallel.py: main ---- *)
pool_frame == <<config, versioning, processors, dd_input, index_vars, graph_vars,
               folder_vars, job_vars, search, stats, s3, ai_worker, web, tenants, mailbox,
               seen_hashes,
               store_vars, pc,
               run_no, ci, documents, pj, attempt, results, faults, fetched, clock,
               hist_vars>>

\* lines 121-151: the arguments are parsed; stored is the number of
\* documents of the store that have no ai_analysis row
PoolMain ==
    /\ pool.pc = "idle"
    /\ \E b \in 0..MaxBatchSize, w \in 0..MaxWorkers, l \in BOOLEAN, n \in 0..MaxPending :
          pool' = [pool EXCEPT !.pc = "fetch", !.batch_size = b, !.workers = w,
                               !.loop = l, !.stored = n]
    /\ UNCHANGED pool_frame

\* lines 158-189: the pending documents are fetched; without any, main
\* sleeps and fetches again (loop) or ends; otherwise every document is
\* submitted to a ThreadPoolExecutor(max_workers=workers), whose constructor
\* raises ValueError for workers <= 0; the query may raise as well
PoolFetch ==
    /\ pool.pc = "fetch"
    /\ LET n == get_pending_documents(pool.stored, pool.batch_size)
       IN \/ /\ n = 0
             /\ pool' = [pool EXCEPT !.pc = IF pool.loop THEN "fetch" ELSE "exited",
                                     !.pending = <<>>]
          \/ /\ n > 0
             /\ pool.workers > 0
             /\ pool' = [pool EXCEPT !.pc = "executor",
                                     !.pending = [i \in 1..n |-> "submitted"]]
          \/ pool' = [pool EXCEPT !.pc = "raised", !.pending = <<>>]
    /\ UNCHANGED pool_frame

\* a free thread of the executor takes the next submitted document
PoolStart ==
    /\ pool.pc = "executor"
    /\ Cardinality(InFlight(pool.pending)) < pool.workers
    /\ \E i \in DOMAIN pool.pending :
          /\ pool.pending[i] = "submitted"
          /\ \A j \in 1..(i - 1) : pool.pending[j] /= "submitted"
          /\ pool' = [pool EXCEPT !.pending[i] = "running"]
    /\ UNCHANGED pool_frame

\* lines 77-112: process_document_worker returns; when analyze_document
\* stored the analysis the document is no longer pending
PoolWorker ==
    /\ pool.pc = "executor"
    /\ \E i \in InFlight(pool.pending) :
          \/ pool' = [pool EXCEPT !.pending[i] = "done", !.stored = @ - 1]
          \/ pool' = [pool EXCEPT !.pending[i] = "done"]
    /\ UNCHANGED pool_frame

\* lines 192-225: every future is done and the with block is left; main
\* ends after one batch without --loop or after a short batch, otherwise it
\* sleeps and fetches again
PoolBatchComplete ==
    /\ pool.pc = "executor"
    /\ \A i \in DOMAIN pool.pending : pool.pending[i] = "done"
    /\ pool' = [pool EXCEPT !.pc = IF ~pool.loop \/ Len(pool.pending) < pool.batch_size
                                   THEN "exited" ELSE "fetch"]
    /\ UNCHANGED pool_frame

\* main has no handler for KeyboardInterrupt: an interrupt signal ends the
\* process wherever it is
PoolInterrupt ==
    /\ pool.pc \in {"fetch", "executor"}
    /\ pool' = [pool EXCEPT !.pc = "interrupted"]
    /\ UNCHANGED pool_frame

NextPool ==
    \/ PoolMain
    \/ PoolInterrupt
    \/ PoolFetch
    \/ PoolStart
    \/ PoolWorker
    \/ PoolBatchComplete

\* one run of the parallel enrichment worker
SpecPool == InitJob /\ [][NextPool]_vars

(* ---- scripts/ai_worker.py: run_worker ---- *)
worker_frame == <<config, versioning, processors, dd_input, index_vars, graph_vars,
                 folder_vars, job_vars, search, stats, s3, pool, web, tenants, mailbox,
                 seen_hashes,
                 store_vars,
                 pc, run_no, ci, documents, pj, attempt, results, faults, fetched, clock,
                 hist_vars>>

\* lines 92-102, 174-204: run_worker is called with the parsed arguments
RunWorker ==
    /\ ai_worker.pc = "idle"
    /\ \E b \in 1..MaxBatchSize, once \in BOOLEAN,
          docs \in SeqsUpTo({StoredDocument(FALSE, TRUE), StoredDocument(FALSE, FALSE)},
                            MaxPending) :
          ai_worker' = [ai_worker EXCEPT !.pc = "process_batch", !.batch_size = b,
                                         !.run_once = once, !.stored = docs]
    /\ UNCHANGED worker_frame

\* what run_worker does when process_batch has returned or raised: lines
\* 104-108 (once: return, or the exception reaches main, lines 206-208),
\* lines 113-126 (continuous: sleep in either case)
AfterBatch(w, raised) ==
    IF w.run_once
    THEN [w EXCEPT !.pc = IF raised THEN "fatal" ELSE "returned"]
    ELSE [w EXCEPT !.pc = "sleep"]

\* lines 57-66: process_batch fetches the pending documents; without
\* documents it returns 0
ProcessBatch ==
    /\ ai_worker.pc = "process_batch"
    /\ LET docs == pending_documents(ai_worker.stored, ai_worker.batch_size)
       IN \/ /\ docs = <<>>
             /\ ai_worker' = AfterBatch([ai_worker EXCEPT !.documents = <<>>, !.i = 0,
                                                          !.success_count = 0], FALSE)
          \/ /\ docs /= <<>>
             /\ ai_worker' = [ai_worker EXCEPT !.pc = "for", !.documents = docs, !.i = 1,
                                               !.success_count = 0]
    /\ UNCHANGED worker_frame

\* line 59: get_pending_documents raises (no connection, a failed query)
ProcessBatchRaise ==
    /\ ai_worker.pc = "process_batch"
    /\ ai_worker' = AfterBatch([ai_worker EXCEPT !.documents = <<>>, !.i = 0], TRUE)
    /\ UNCHANGED worker_frame

\* lines 67-86: the next document of the batch is analysed and its analysis
\* stored, or the exception is printed and the loop continues
ProcessDocument ==
    /\ ai_worker.pc = "for"
    /\ ai_worker.i <= Len(ai_worker.documents)
    /\ LET n == ai_worker.documents[ai_worker.i]
       IN IF ai_worker.stored[n].succeeds
          THEN ai_worker' = [ai_worker EXCEPT !.stored[n].analyzed = TRUE, !.i = @ + 1,
                                              !.success_count = @ + 1]
          ELSE ai_worker' = [ai_worker EXCEPT !.i = @ + 1]
    /\ UNCHANGED worker_frame

\* lines 88-89: process_batch returns success_count
BatchComplete ==
    /\ ai_worker.pc = "for"
    /\ ai_worker.i > Len(ai_worker.documents)
    /\ ai_worker' = AfterBatch(ai_worker, FALSE)
    /\ UNCHANGED worker_frame

\* lines 112, 119, 126: time.sleep(sleep_interval) returns and the loop
\* calls process_batch again
WorkerSleep ==
    /\ ai_worker.pc = "sleep"
    /\ ai_worker' = [ai_worker EXCEPT !.pc = "process_batch"]
    /\ UNCHANGED worker_frame

\* lines 121-122, 128-131: an interrupt signal stops the worker
KeyboardInterrupt ==
    /\ ai_worker.pc \in {"process_batch", "for", "sleep"}
    /\ ai_worker' = [ai_worker EXCEPT !.pc = "stopped"]
    /\ UNCHANGED worker_frame

\* the steps of the worker itself
WorkerRun ==
    \/ ProcessBatch
    \/ ProcessBatchRaise
    \/ ProcessDocument
    \/ BatchComplete
    \/ WorkerSleep

NextWorker ==
    \/ RunWorker
    \/ WorkerRun
    \/ KeyboardInterrupt

\* one run of the sequential enrichment worker
SpecWorker == InitJob /\ [][NextWorker]_vars

\* the worker is scheduled, every call it makes returns or raises, the
\* query of the pending documents does not fail for ever, and no interrupt
\* signal has to arrive
SpecWorkerFair == SpecWorker /\ WF_vars(WorkerRun) /\ SF_vars(ProcessBatch)

(* ---- web/app.py: api_custom_ai_analysis, api_custom_ai_progress ---- *)
web_frame == <<config, versioning, processors, dd_input, index_vars, graph_vars,
              folder_vars, job_vars, search, stats, s3, pool, ai_worker, tenants, mailbox,
              seen_hashes,
              store_vars, pc, run_no, ci, documents, pj, attempt, results, faults, fetched,
              clock, hist_vars>>

\* the clock of time.time() advances
TimePasses ==
    /\ web.time < MaxTime
    /\ web' = [web EXCEPT !.time = @ + 1]
    /\ UNCHANGED web_frame

\* app.py:600-625: a thread of the server takes a request with document ids
\* and a prompt, makes the job id from the time and stores a new entry
ApiCustomAiAnalysis(r) ==
    /\ web.requests[r].pc = "none"
    /\ \E total \in 1..MaxJobDocs :
          LET job_id == JobId(web.time)
          IN web' = [web EXCEPT
                        !.requests[r] = [pc |-> "processing", job_id |-> Some(job_id),
                                         total |-> total],
                        !.custom_ai_progress =
                            Upsert(@, job_id, ProgressEntry(total))]
    /\ UNCHANGED web_frame

\* app.py:699-751: a document of the job of request r is analysed and the
\* counter of the entry of its job id grows
ProcessCustomAiDocument(r) ==
    /\ web.requests[r].pc = "processing"
    /\ web.requests[r].total > 0
    /\ web' = [web EXCEPT !.requests[r].total = @ - 1,
                          !.custom_ai_progress[web.requests[r].job_id[1]].processed = @ + 1]
    /\ UNCHANGED web_frame

\* app.py:764, 633-643: every document is done, the entry is marked
\* completed and the request is answered
ProcessCustomAiComplete(r) ==
    /\ web.requests[r].pc = "processing"
    /\ web.requests[r].total = 0
    /\ web' = [web EXCEPT !.requests[r].pc = "answered",
                          !.custom_ai_progress[web.requests[r].job_id[1]].completed = TRUE]
    /\ UNCHANGED web_frame

\* app.py:652-668: the status endpoint answers 404 or the entry
ApiCustomAiProgress ==
    /\ \E t \in 0..MaxTime :
          web' = [web EXCEPT !.status =
                     IF JobId(t) \in DOMAIN web.custom_ai_progress
                     THEN Some(web.custom_ai_progress[JobId(t)])
                     ELSE Some([error |-> "Job not found"])]
    /\ UNCHANGED web_frame

NextWeb ==
    \/ TimePasses
    \/ \E r \in 1..MaxRequests : ApiCustomAiAnalysis(r)
    \/ \E r \in 1..MaxRequests : ProcessCustomAiDocument(r)
    \/ \E r \in 1..MaxRequests : ProcessCustomAiComplete(r)
    \/ ApiCustomAiProgress

\* the web application serves custom analysis and status requests
SpecWeb == InitJob /\ [][NextWeb]_vars

\* every thread of the server is scheduled and time passes
SpecWebFair == SpecWeb /\ WF_vars(NextWeb)

(* ---- microsoft_graph.py: fetch() converts the messages of a folder ---- *)
mailbox_frame == <<config, versioning, processors, dd_input, index_vars, graph_vars,
                  folder_vars, job_vars, search, stats, s3, pool, ai_worker, web, tenants,
                  seen_hashes, store_vars, run_no, ci, attempt, results, faults, fetched,
                  hist_vars>>

\* lines 71-74, 389-411: a connector is constructed and fetch() begins on
\* the messages of its folder
MailboxFetchCall ==
    /\ pc = "idle"
    /\ \E messages \in SeqsUpTo(MailboxMessages, MaxMailbox), include \in BOOLEAN :
          mailbox' = [messages |-> messages, include_attachments |-> include]
    /\ documents' = <<>>
    /\ pj' = 1
    /\ pc' = "convert"
    /\ UNCHANGED <<clock, mailbox_frame>>

\* lines 411-428: the next message is converted and yielded, or skipped when
\* its conversion raises; the attachment request succeeds or, after the
\* retries of _make_graph_request, raises
MailboxConvert(request_raises) ==
    /\ pc = "convert"
    /\ pj <= Len(mailbox.messages)
    /\ request_raises => hasAttachments(mailbox.messages[pj]) /\ mailbox.include_attachments
    /\ LET document == convert_message_to_document(config.connectors[1],
                            mailbox.include_attachments, mailbox.messages[pj],
                            request_raises, clock + 1)
       IN documents' = documents \o (IF document = None THEN <<>> ELSE <<document[1]>>)
    /\ clock' = clock + 1
    /\ pj' = pj + 1
    /\ UNCHANGED <<pc, mailbox, mailbox_frame>>

\* lines 430-432: the folder is exhausted, fetch() returns
MailboxFetchReturn ==
    /\ pc = "convert"
    /\ pj > Len(mailbox.messages)
    /\ pc' = "fetch_returned"
    /\ UNCHANGED <<documents, pj, clock, mailbox, mailbox_frame>>

NextMailbox ==
    \/ MailboxFetchCall
    \/ MailboxConvert(FALSE)
    \/ MailboxConvert(TRUE)
    \/ MailboxFetchReturn

\* one fetch() over the messages of a folder, attachments requested
SpecMailbox == InitGraph /\ [][NextMailbox]_vars

(* ---- storage.py: S3ObjectStores of several tenants ---- *)
tenants_frame == <<config, versioning, processors, dd_input, index_vars, graph_vars,
                  folder_vars, job_vars, search, stats, s3, pool, ai_worker, web, mailbox,
                  seen_hashes, store_vars, pc, run_no, ci, documents, pj, attempt, results,
                  faults, fetched, clock, hist_vars>>

\* lines 82-99: a store is constructed from its parameters
TenantStoreInit(k) ==
    /\ tenants.stores[k] = None
    /\ \E t \in TenantIds, p \in BucketPrefixes :
          tenants' = [tenants EXCEPT
                         !.stores[k] = Some([tenant_id |-> t, bucket_prefix |-> p,
                                             bucket_name |-> BucketName(p, t)])]
    /\ UNCHANGED tenants_frame

\* lines 346-360: put_object(Bucket=self._bucket_name, ...) of a store
TenantStoreUpload(k) ==
    /\ tenants.stores[k] /= None
    /\ LET store == tenants.stores[k][1]
           before == IF store.bucket_name \in DOMAIN tenants.writers
                     THEN tenants.writers[store.bucket_name] ELSE {}
       IN tenants' = [tenants EXCEPT
                         !.writers = Upsert(@, store.bucket_name,
                                            before \cup {store.tenant_id})]
    /\ UNCHANGED tenants_frame

NextTenants ==
    \/ \E k \in 1..MaxStores : TenantStoreInit(k)
    \/ \E k \in 1..MaxStores : TenantStoreUpload(k)

\* stores of several tenants are constructed and used
SpecTenants == InitJob /\ [][NextTenants]_vars

(***************************************************************************)
(* The claims                                                              *)
(***************************************************************************)
\* a step in which the persist call of documents[pj] returns normally
PersistReturned == pc = "persist" /\ pj \in DOMAIN documents /\ pj' = pj + 1

\* a step in which the persist call of documents[pj] ends with an error
PersistRaised == pc = "persist" /\ pj \in DOMAIN documents /\ h_failed' /= h_failed

\* a step in which bulk_index is called
BulkIndexCalled == Len(h_index_arg') = Len(h_index_arg) + 1

\* the documents of the batch docs of connector c whose persist succeeded
C1_PersistedOf(c, docs, persisted) ==
    LET kept == SelectSeq([n \in DOMAIN docs |-> n],
                          LAMBDA n : Instance(c, n, docs) \in persisted)
    IN [i \in DOMAIN kept |-> docs[kept[i]]]

\* C1: when persist raises for a document of the batch, run() does not
\* abort but goes on to the next document of the batch, and bulk_index is
\* called with exactly the documents of the batch whose persist succeeded.
C1_PersistFailureSkipsDocument ==
    [][ /\ PersistRaised => (pc' = "persist" /\ pj' = pj + 1)
        /\ BulkIndexCalled =>
              h_index_arg'[Len(h_index_arg')] = C1_PersistedOf(ci, documents, h_persisted)
      ]_vars

\* C2: an exception of connector creation, fetch or bulk_index aborts only
\* that connector: run() ends by returning, after it has run every enabled
\* connector of the configuration.
C2_ConnectorFailureIsolated ==
    (pc \in {"returned", "raised"} /\ h_failed = {}) =>
        /\ pc = "returned"
        /\ \A n \in DOMAIN config.connectors :
              config.connectors[n].enabled => n \in h_started

\* C3: the ids this run() wrote to the metadata store are ids whose persist
\* completed successfully; a document whose persist failed is never indexed.
C3_IndexedSubsetOfPersisted ==
    /\ InstanceIds(h_indexed) \subseteq InstanceIds(h_persisted)
    /\ h_indexed \subseteq h_persisted
    /\ h_indexed \cap h_failed = {}

\* C3 witness: a batch was indexed and a persist of a later batch failed
C3_Witness == h_indexed /= {} /\ h_failed /= {}

\* C4: every document persisted during a connector is indexed before the
\* next connector is created and before run() ends, also when a later
\* document of the batch fails to persist.
C4_PersistedIndexedBeforeNextConnector ==
    pc \in {"for", "returned", "raised"} => h_persisted \subseteq h_indexed

C5_TupleKeys(docs) == {<<docs[n].subject, docs[n].body_text>> : n \in DOMAIN docs}

C5_Concat(doc) ==
    (IF doc.subject = None THEN "" ELSE doc.subject[1])
    \o (IF doc.body_text = None THEN "" ELSE doc.body_text[1])

C5_ConcatKeys(docs) == {C5_Concat(docs[n]) : n \in DOMAIN docs}

\* C5 as stated: a batch with K distinct (subject, body_text) tuples is
\* deduplicated to exactly K documents, one per distinct tuple.
C5_OnePerDistinctTuple ==
    pc = "dedup_done" =>
        /\ Len(documents) = Cardinality(C5_TupleKeys(dd_input))
        /\ C5_TupleKeys(documents) = C5_TupleKeys(dd_input)

\* C5 amended: a batch with K distinct concatenations (subject or "") +
\* (body_text or "") is deduplicated to exactly K documents, one per
\* distinct concatenation.
C5_OnePerDistinctConcatenation ==
    pc = "dedup_done" =>
        /\ Len(documents) = Cardinality(C5_ConcatKeys(dd_input))
        /\ C5_ConcatKeys(documents) = C5_ConcatKeys(dd_input)

\* C5 witness: two documents with distinct tuples and one concatenation
\* were given, and duplicates were dropped
C5_Witness ==
    /\ pc = "dedup_done"
    /\ Cardinality(C5_ConcatKeys(dd_input)) < Cardinality(C5_TupleKeys(dd_input))
    /\ Len(documents) = 2
    /\ Len(dd_input) = 3

\* C6: in every call of run() a document is dropped by deduplication only
\* if a document with the same digest was emitted earlier in that call.
C6_SeenSetScopedToRun == h_dropped \subseteq h_emitted

\* C7: with every stage enabled the chain is Deduplication, File Analysis,
\* OCR, Entity extraction, Privilege detection; a disabled stage is absent;
\* each stage of the chain runs once per batch, in chain order.
C7_ProcessorChain ==
    /\ config.processing = Processing(TRUE, TRUE, TRUE, TRUE) =>
          processors = <<"DeduplicationProcessor", "FileAnalysisProcessor", "OCRProcessor",
                         "EntityExtractionProcessor", "PrivilegeDetectionProcessor">>
    /\ config.processing = Processing(FALSE, FALSE, FALSE, FALSE) => processors = <<>>
    /\ pc = "persist" => h_stage_log = processors

\* C8: a persist that returns normally appends exactly one custody event,
\* with action "persisted" and the storage location, and changes no other
\* field of the document; a persist that fails appends no event.
C8_PersistAppendsOneCustodyEvent ==
    [][ /\ PersistReturned =>
              LET old == documents[pj].chain_of_custody
                  new == documents'[pj].chain_of_custody
              IN /\ Len(new) = Len(old) + 1
                 /\ SubSeq(new, 1, Len(old)) = old
                 /\ new[Len(new)].action = "persisted"
                 /\ new[Len(new)].metadata /= {}
                 /\ [documents'[pj] EXCEPT !.chain_of_custody = old] = documents[pj]
        /\ PersistRaised => documents' = documents
      ]_vars

C9_ExpectedArtifacts(doc) ==
    (IF doc.body_text /= None THEN {"body.txt"} ELSE {})
    \cup {"metadata.json", "custody_chain.json"}
    \cup {doc.attachments[a].filename : a \in DOMAIN doc.attachments}

C9_Visible(objs, doc, name) ==
    \E k \in DOMAIN objs :
        /\ k[1] = doc.source
        /\ k[Len(k)] = name
        /\ \E i \in DOMAIN k : k[i] = doc.document_id

\* C9: a persist call that ends with an error leaves none of the artifacts
\* it wrote visible in the store; one that returns normally leaves body.txt,
\* metadata.json, every attachment and custody_chain.json visible.
C9_PersistAllOrNothing ==
    [][ /\ PersistRaised => objects' = h_call_objects
        /\ PersistReturned =>
              \A name \in C9_ExpectedArtifacts(documents[pj]) :
                  C9_Visible(objects', documents[pj], name)
      ]_vars

\* C10: every artifact version written by an earlier persist stays readable
\* with identical content; a later persist never overwrites old bytes.
C10_ObjectVersionsImmutable ==
    [][ \A k \in DOMAIN objects :
            /\ k \in DOMAIN objects'
            /\ Len(objects'[k]) >= Len(objects[k])
            /\ SubSeq(objects'[k], 1, Len(objects[k])) = objects[k]
      ]_vars

\* C11: a bulk_index call that raises leaves the visible tables as they
\* were before the call, and the visible tables change only by the commit of
\* a whole batch: no reader sees a partially indexed batch.
C11_BulkIndexAllOrNothing ==
    [][ /\ (pc = "index_tx" /\ pc' = "index_raised") => db' = h_call_db
        /\ db' /= db =>
              /\ pc' = "index_returned"
              /\ db' = IndexDocuments(config.metadata_store, h_call_db, documents)
      ]_vars

\* C11 witness: after a committed batch, a later call failed on its second
\* document and the tables are those the first call left
C11_Witness ==
    /\ pc = "index_raised"
    /\ pj = 2
    /\ db /= EmptyDb
    /\ db = h_call_db

IsPrefix(s, t) == Len(s) <= Len(t) /\ SubSeq(t, 1, Len(s)) = s

\* C12: chain_of_custody is append-only.  While a batch is processed and
\* persisted, every document of the batch keeps the events it had, unchanged
\* and in order, and events are only added at the end; no row of the
\* custody_events table is ever modified or removed.
C12_CustodyAppendOnly ==
    [][ /\ pc \in {"process", "persist"} =>
              \A m \in DOMAIN documents' :
                  \E n \in DOMAIN documents :
                      /\ documents[n].document_id = documents'[m].document_id
                      /\ IsPrefix(documents[n].chain_of_custody,
                                  documents'[m].chain_of_custody)
        /\ db.custody_events \subseteq db'.custody_events
      ]_vars

\* C12 witness: a document id was indexed twice, the second time after its
\* persist appended an event, and the table holds the events of both
C12_Witness ==
    /\ pc = "returned"
    /\ \E r1, r2, r3 \in db.custody_events :
          /\ r1.document_id = r2.document_id
          /\ r2.document_id = r3.document_id
          /\ r1.action = "collected"
          /\ r2.action = "collected"
          /\ r1 /= r2
          /\ r3.action = "persisted_to_s3"

\* C13: every document a connector's fetch produces carries at least one
\* custody event with action "collected" whose actor is the connector (its
\* configured name or its class name).
C13_FetchedDocumentsHaveCollectedEvent ==
    pc = "fetched" =>
        \A n \in DOMAIN documents :
            \E k \in DOMAIN documents[n].chain_of_custody :
                /\ documents[n].chain_of_custody[k].action = "collected"
                /\ documents[n].chain_of_custody[k].actor \in
                      {config.connectors[1].name, ConnectorClass(config.connectors[1].type)}

\* C14: no document that has an attachment whose declared checksum_sha256
\* differs from the SHA-256 of its payload gets past ingestion: the documents
\* that file analysis hands on to persist and bulk_index have none.
C14_ChecksumMismatchRejected ==
    pc = "analysed" =>
        \A n \in DOMAIN documents :
            \A a \in DOMAIN documents[n].attachments :
                LET att == documents[n].attachments[a]
                IN att.checksum_sha256 /= None =>
                      att.checksum_sha256[1] = sha256(att.payload)

\* C15: within one call of _make_graph_request a token is acquired in
\* answer to a 401 at most once.
C15_ReauthOncePerRequest == reauths <= 1

\* a step that sends an HTTP request
GraphSends == pc \in {"graph_send", "graph_resend_429", "graph_resend_401"}

\* C16: when the last response of the call was a 429, the next HTTP request
\* of the call is sent only after at least its Retry-After interval.
C16_RetryAfterHonoured ==
    [][ (GraphSends /\ response.status = "429") => waited >= retry_after(response) ]_vars

\* C17: when max_messages is set, the documents a fetch has yielded are at
\* most max_messages in total, over all folders and pages.
C17_MaxMessagesInTotal ==
    (pc \in {"fetch_folder", "fetch_page", "fetch_returned"} /\ LimitSet(max_messages))
        => Len(documents) <= max_messages[1]

\* C18: a job that was started is eventually marked completed, and it is
\* marked completed only when the analysis of every document has ended.
C18_JobEventuallyCompleted ==
    /\ progress.started ~> progress.completed
    /\ [](progress.completed => \A w \in DOMAIN workers : Finished(w))

C18_Witness ==
    /\ progress.completed
    /\ parallel
    /\ \E w \in DOMAIN workers : workers[w].pc = "failed"
    /\ \E w \in DOMAIN workers : workers[w].pc = "done"

\* C19: a job whose documents were each stored or not found ends with
\* processed = total.
C19_SkippedDocumentCounted ==
    (/\ progress.completed
     /\ workers /= <<>>
     /\ \A w \in DOMAIN workers : workers[w].pc \in {"done", "skipped"})
        => progress.processed = progress.total

\* C20: when a job that creates tags has ended, every document with a row in
\* ai_analysis has the tags of that analysis in user_tags.
C20_AnalysisAndTagsTogether ==
    (pc = "job_returned" /\ parallel /\ create_tags)
        => \A d \in DOMAIN ai_analysis :
              \A t \in tags_to_create(ai_analysis[d]) : <<d, t>> \in user_tags

\* the step commits the enrichment of document_ids[w]: the worker of a
\* parallel job its analysis and notes, the loop of app.py its notes
RunCommitted(w) ==
    \/ parallel /\ workers[w].pc = "found" /\ workers'[w].pc = "saved"
    \/ ~parallel /\ workers[w].pc = "queued" /\ workers'[w].pc = "done"

\* the tables after a run on doc_id with the answer raw was committed
RunStored(doc_id, raw) ==
    /\ DOMAIN user_review' = DOMAIN user_review \cup {doc_id}
    /\ \A d \in DOMAIN user_review \ {doc_id} : user_review'[d] = user_review[d]
    /\ user_review'[doc_id] =
          (IF doc_id \in DOMAIN user_review
           THEN user_review[doc_id] \o <<NotesSeparator>>
           ELSE <<>>) \o <<CustomAnalysisNote(raw)>>
    /\ parallel =>
          /\ DOMAIN ai_analysis' = DOMAIN ai_analysis \cup {doc_id}
          /\ \A d \in DOMAIN ai_analysis \ {doc_id} : ai_analysis'[d] = ai_analysis[d]
          /\ ai_analysis'[doc_id] = ParseResponse(raw, custom_prompt)

C22_ParseDefaultsAndTags ==
    (/\ parallel
     /\ create_tags
     /\ document_ids = <<"d1">>
     /\ workers /= <<>>
     /\ workers[1].pc = "done"
     /\ user_review["d1"] = <<CustomAnalysisNote(CannotAnswer)>>)
        => /\ ai_analysis["d1"].relevance_score = 50
           /\ ai_analysis["d1"].privilege_risk = 0
           /\ ai_analysis["d1"].classification = "needs-review"
           /\ ai_analysis["d1"].key_findings = ""
           /\ user_tags \subseteq {<<"d1", "AI: Needs Review">>, <<"d1", "Medium Priority">>}

\* the embedding of the query could not be had
EmbeddingUnavailable ==
    \/ search.count_failed
    \/ search.embeddings_count = 0
    \/ ~search.api_key
    \/ search.embed_failed

\* C23: a search with query text whose main query was executed uses the
\* text rank and succeeds when the embedding path is unavailable, runs its
\* main query in a transaction without error state, and uses the vector
\* similarity only with a query embedding and a document with an embedding.
C23_SearchFallsBackToTextRank ==
    (pc = "search_returned" /\ search.executed /\ search.query /= "")
        => /\ EmbeddingUnavailable => (search.relevance = "ts_rank" /\ search.success)
           /\ ~search.tx_error
           /\ search.relevance = "vector"
                 => (search.query_embedding /= None /\ search.embeddings_count > 0)

C23_Witness ==
    /\ pc = "search_returned"
    /\ search.executed
    /\ search.count_failed
    /\ search.relevance = "ts_rank"
    /\ search.success

\* C24: after file analysis every attachment whose payload starts with the
\* ZIP signature and holds the token EncryptedPackage has quality encrypted
\* and is not processable, whatever its filename, and the statistic
\* 'encrypted' counts each of them.
C24_EncryptedOfficeFile ==
    pc = "analysed" =>
        LET encrypted == { p \in AttachmentsOf(documents) :
                             documents[p[1]].attachments[p[2]].payload = EncryptedZip }
        IN /\ \A p \in encrypted :
                 /\ documents[p[1]].attachments[p[2]].data_quality = Some("encrypted")
                 /\ ~documents[p[1]].attachments[p[2]].is_processable
           /\ stats.encrypted = Cardinality(encrypted)

\* C25: in a parallel job every change of the progress record, of its results
\* and of its redactions is made by a thread that holds progress_lock, and in
\* every state processed = len(results) <= total.
C25_ProgressMutatedUnderLock ==
    /\ [][(parallel /\ progress.started /\ progress' /= progress)
            => progress_lock /= 0]_vars
    /\ [](parallel => /\ progress.processed = Len(progress.results)
                      /\ progress.processed <= progress.total)

\* the store has been constructed
S3Constructed == s3.pc \notin {"idle", "head_bucket", "create_bucket", "put_bucket_encryption",
                               "put_public_access_block", "versioning", "init_raised"}

\* C26: every multipart upload for which an upload id was obtained is
\* completed or aborted when _multipart_upload is left, abort is issued once
\* for an upload whose upload_part or complete call failed and never for a
\* completed upload.
C26_MultipartCompletedOrAborted ==
    /\ \A u \in DOMAIN s3.uploads :
          s3.uploads[u] = "initiated" =>
              u = Len(s3.uploads) /\ s3.pc \in {"upload_part", "abort"}
    /\ \A k \in DOMAIN s3.aborts :
          /\ s3.uploads[s3.aborts[k]] /= "completed"
          /\ \A l \in DOMAIN s3.aborts : s3.aborts[l] = s3.aborts[k] => l = k

\* C27: persist is attempted at most PERSIST_ATTEMPTS times with a wait
\* between WAIT_MIN and WAIT_MAX that never shrinks before each further
\* attempt; it returns at the first attempt that succeeds, with the custody
\* event appended once, and raises only after the last attempt failed, with
\* no event appended.
C27_PersistRetriedThreeTimes ==
    /\ [](/\ s3.attempt <= PERSIST_ATTEMPTS
          /\ s3.attempt >= 1 => Len(s3.slept) = s3.attempt - 1
          /\ \A k \in DOMAIN s3.slept :
                /\ s3.slept[k] \in WAIT_MIN..WAIT_MAX
                /\ k > 1 => s3.slept[k - 1] <= s3.slept[k]
          /\ s3.chain_of_custody =
                (IF s3.pc = "persist_returned" THEN <<"persisted_to_s3">> ELSE <<>>)
          /\ s3.pc = "persist_raised" => s3.attempt = PERSIST_ATTEMPTS)
    /\ [][s3.pc \in {"persist_returned", "persist_raised"} => s3' = s3]_vars

C27_Witness == s3.pc = "persist_returned" /\ s3.attempt = PERSIST_ATTEMPTS

\* C28: once the S3ObjectStore is constructed its bucket exists with
\* versioning, with the default encryption of the store and with public
\* access blocked, and no object was uploaded to a bucket without them.
C28_BucketProvisioned ==
    S3Constructed => /\ Provisioned(s3.bucket, s3.kms_key_id)
                     /\ ~s3.put_unprovisioned

\* C29: a call of _make_graph_request makes at most GRAPH_ATTEMPTS attempts,
\* the wrapper waits between WAIT_MIN and WAIT_MAX seconds before each
\* further attempt, the call fails when the last attempt failed, and it
\* sends at most three HTTP requests per attempt whatever the server answers.
C29_GraphRetryBudget ==
    /\ [](/\ attempt <= GRAPH_ATTEMPTS
          /\ sent <= 3 * GRAPH_ATTEMPTS)
    /\ [][pc = "graph_failed" =>
            \/ /\ attempt < GRAPH_ATTEMPTS
               /\ attempt' = attempt + 1
               /\ (waited' - waited) \in WAIT_MIN..WAIT_MAX
               /\ pc' = "graph_token"
            \/ /\ attempt = GRAPH_ATTEMPTS
               /\ pc' = "graph_raised"]_vars

C29_Witness == pc = "graph_raised" /\ attempt = GRAPH_ATTEMPTS /\ sent = 3 * GRAPH_ATTEMPTS

\* C30: the batch a pending fetch returns has at most batch_size documents,
\* at most workers documents are in flight, and a fetch is made only when
\* every document of the batch before it is done.
C30_BatchBoundedAndSequential ==
    /\ [](/\ Len(pool.pending) <= pool.batch_size
          /\ Cardinality(InFlight(pool.pending)) <= pool.workers)
    /\ [][pool.pc = "fetch" => \A i \in DOMAIN pool.pending : pool.pending[i] = "done"]_vars

\* C31: in loop mode the parallel enrichment worker keeps polling: it does
\* not end after a batch smaller than batch_size nor by an error of a batch,
\* only an interrupt signal stops it.
C31_LoopModeKeepsPolling ==
    pool.loop => pool.pc \notin {"exited", "raised"}

\* C37: in continuous mode every pending document whose analysis succeeds
\* when attempted is eventually analyzed, unless the worker is stopped,
\* whatever other pending documents fail on every attempt.
C37_GoodDocumentEventuallyAnalyzed ==
    \A n \in 1..MaxPending :
        (/\ ai_worker.pc = "process_batch"
         /\ ~ai_worker.run_once
         /\ n \in DOMAIN ai_worker.stored
         /\ ai_worker.stored[n].succeeds)
            ~> \/ n \in DOMAIN ai_worker.stored /\ ai_worker.stored[n].analyzed
               \/ ai_worker.pc = "stopped"

\* C32: every entry of the progress map whose job completed is eventually
\* evicted from the map.
C32_CompletedEntryEvicted ==
    \A t \in 0..MaxTime :
        (JobId(t) \in DOMAIN web.custom_ai_progress
            /\ web.custom_ai_progress[JobId(t)].completed)
        ~> (JobId(t) \notin DOMAIN web.custom_ai_progress)

\* C36: two requests that started a job have different job ids, and the
\* counter of an entry counts at most the documents of its own job.
C36_DistinctJobIds ==
    /\ \A r1, r2 \in 1..MaxRequests :
          (r1 /= r2 /\ web.requests[r1].job_id /= None)
              => web.requests[r1].job_id /= web.requests[r2].job_id
    /\ \A k \in DOMAIN web.custom_ai_progress :
          web.custom_ai_progress[k].processed <= web.custom_ai_progress[k].total

\* a document without what processors and persist add to it
C33_Produced(doc) == [doc EXCEPT !.metadata = {}, !.chain_of_custody = <<>>]

\* the places of docs that hold the first occurrence of a digest that is not
\* in seen, in order
C33_FirstOccurrences(docs, seen) ==
    SelectSeq([n \in DOMAIN docs |-> n],
              LAMBDA n : /\ DedupDigest(docs[n]) \notin seen
                         /\ \A m \in 1..(n - 1) : DedupDigest(docs[m]) /= DedupDigest(docs[n]))

\* C33: the processors return the documents the connector produced in their
\* order, without those deduplication drops, which are all but the first
\* occurrence of each digest; persist keeps the order; and bulk_index gets
\* that list.
C33_ProductionOrderKept ==
    [][ /\ (pc = "process" /\ pc' = "persist") =>
              LET kept == IF "DeduplicationProcessor" \in {processors[k] : k \in DOMAIN processors}
                          THEN C33_FirstOccurrences(documents, seen_hashes)
                          ELSE [n \in DOMAIN documents |-> n]
              IN /\ Len(documents') = Len(kept)
                 /\ \A i \in DOMAIN kept :
                       C33_Produced(documents'[i]) = C33_Produced(documents[kept[i]])
        /\ (pc = "persist" /\ pc' = "persist") =>
              /\ Len(documents') = Len(documents)
              /\ \A i \in DOMAIN documents :
                    C33_Produced(documents'[i]) = C33_Produced(documents[i])
        /\ BulkIndexCalled => h_index_arg'[Len(h_index_arg')] = documents
      ]_vars

C33_Witness ==
    /\ h_index_arg /= <<>>
    /\ Len(h_index_arg[1]) >= 2
    /\ h_dropped /= {}

\* C34: after file analysis an attachment named .docx whose payload starts
\* with the ZIP signature and holds the marker word/ has the Word OpenXML
\* type as detected_mime and is not of quality invalid_format.
C34_DocxDetected ==
    pc = "analysed" =>
        \A p \in AttachmentsOf(documents) :
            LET att == documents[p[1]].attachments[p[2]]
            IN (att.payload = IntactDocx /\ att.filename = "f.docx") =>
                   /\ att.detected_mime = Some(DocxMime)
                   /\ att.data_quality /= Some("invalid_format")

\* C35: stores with different tenant_id have different bucket names, and
\* the objects of a bucket were all written by the stores of one tenant.
C35_TenantsShareNoBucket ==
    /\ \A k1, k2 \in 1..MaxStores :
          (/\ tenants.stores[k1] /= None
           /\ tenants.stores[k2] /= None
           /\ tenants.stores[k1][1].tenant_id /= tenants.stores[k2][1].tenant_id)
              => tenants.stores[k1][1].bucket_name /= tenants.stores[k2][1].bucket_name
    /\ \A b \in DOMAIN tenants.writers : Cardinality(tenants.writers[b]) <= 1

\* the attachments rows of a document_id in the committed tables
AttachmentRowsOf(id) ==
    IF id \in DOMAIN db.attachments THEN db.attachments[id] ELSE <<>>

\* the last document of the batch with the document_id of documents[n]
LastWithId(n) ==
    documents[CHOOSE k \in DOMAIN documents :
                 /\ documents[k].document_id = documents[n].document_id
                 /\ \A j \in DOMAIN documents :
                       documents[j].document_id = documents[n].document_id => j <= k]

\* C38: after bulk_index has committed in the Postgres store, the attachments
\* rows of each document_id of the batch are exactly the attachments the
\* document has now, none when it has none.
C38_AttachmentRowsAreCurrent ==
    (/\ pc = "index_returned"
     /\ config.metadata_store = "postgres")
        => \A n \in DOMAIN documents :
              AttachmentRowsOf(documents[n].document_id)
                 = [a \in DOMAIN LastWithId(n).attachments |->
                       [filename |-> LastWithId(n).attachments[a].filename,
                        checksum_sha256 |-> LastWithId(n).attachments[a].checksum_sha256]]

\* the message a yielded document was made from: message n of the folder is
\* converted at time n
MessageOf(document) == mailbox.messages[document.chain_of_custody[1].timestamp]

\* C39: with include_attachments enabled, every document yielded for a message
\* with hasAttachments carries all file attachments of the message; a message
\* whose attachment request failed is not yielded with an empty or partial list.
C39_YieldedWithAllAttachments ==
    (pc \in {"convert", "fetch_returned"} /\ mailbox.include_attachments)
        => \A k \in DOMAIN documents :
              hasAttachments(MessageOf(documents[k]))
                 => documents[k].attachments
                       = FileAttachmentsOf(MessageOf(documents[k]).attachments)

\* the scores of a parsed answer lie in 0..100
ScoresInRange(r) == r.relevance_score \in 0..100 /\ r.privilege_risk \in 0..100

\* C40: the relevance and privilege-risk values written to ai_analysis,
\* reported in the results and used for the priority tag lie in 0..100,
\* whatever the text of the answer.
C40_ScoresInRange ==
    /\ \A d \in DOMAIN ai_analysis : ScoresInRange(ai_analysis[d])
    /\ \A w \in DOMAIN workers : ScoresInRange(workers[w].response)

====
